---- MODULE Spec2Model ----
(***************************************************************************)
(* CLIgent (src/cligent.py): the agent orchestration loop.                 *)
(*                                                                         *)
(* One turn of the prompt loop is a chain of blocking calls: the backend   *)
(* (call_api), the confirmation prompt (ask_user_confirmation) and the     *)
(* shell (run_command).  Each action below hands the result of one         *)
(* blocking call to the code that waits for it and runs that code up to    *)
(* its next blocking call, so an action is one uninterrupted stretch of    *)
(* process_user_prompt / handle_run_commands / handle_error_recursion.     *)
(*                                                                         *)
(* Text is a sequence of one-character strings; None is a reserved         *)
(* sequence so that it compares with text.                                 *)
(***************************************************************************)
EXTENDS Integers, Sequences, FiniteSets, TLC

(***************************************************************************)
(* Bounds of the model.                                                    *)
(***************************************************************************)
MaxRun == 2        \* longest run list of a main plan
MaxFixRun == 2     \* longest run list of a repair plan
MaxTurns == 1      \* prompts entered in one session
MaxKeys == 2       \* keys pressed in the history viewer, in the menus and to cycle models in one session
MaxSegments == 3   \* prose lines and fenced blocks of a backend text given to the plan parser

(***************************************************************************)
(* Program constants.                                                      *)
(***************************************************************************)
MaxDepth == 10     \* handle_error_recursion: if depth >= 10
MaxHistory == 50   \* create_history_block: keep only last 50 blocks
AttemptWindow == 20  \* handle_error_recursion: issue_history[-20:]
DefaultMaxTokens == 4096  \* get_model_max_tokens: return 4096

None == <<"<None>">>
Truthy(x) == x # None /\ x # <<>>

(***************************************************************************)
(* str.strip() and str.lower() on the characters the inputs use.           *)
(***************************************************************************)
IsSpace(c) == c = " "

RECURSIVE LStrip(_)
LStrip(s) == IF s # <<>> /\ IsSpace(Head(s)) THEN LStrip(Tail(s)) ELSE s

RECURSIVE RStrip(_)
RStrip(s) ==
    IF s # <<>> /\ IsSpace(s[Len(s)]) THEN RStrip(SubSeq(s, 1, Len(s) - 1)) ELSE s

Strip(s) == RStrip(LStrip(s))

LowerChar(c) ==
    CASE c = "Y" -> "y"
      [] c = "E" -> "e"
      [] c = "S" -> "s"
      [] c = "N" -> "n"
      [] c = "O" -> "o"
      [] OTHER -> c

Lower(s) == [i \in 1..Len(s) |-> LowerChar(s[i])]

(***************************************************************************)
(* Colors (class Color): by name.                                          *)
(***************************************************************************)
GREEN == "GREEN"
BLUE == "BLUE"
RED == "RED"
WHITE == "WHITE"
YELLOW == "YELLOW"
CYAN == "CYAN"
MAGENTA == "MAGENTA"
NoColor == "-"

(***************************************************************************)
(* Plans, steps and backend replies.                                       *)
(***************************************************************************)
Commands == {"c1", "c2"}
FixCommands == {"f1"}

Steps == {[command |-> "c1", confirm |-> FALSE], [command |-> "c2", confirm |-> TRUE]}
FixSteps == {[command |-> c, confirm |-> b] : c \in FixCommands, b \in BOOLEAN}

RunLists(S, n) == UNION {[1..k -> S] : k \in 0..n}

PlanTypes == {"direct", "query", "task", "answer", "knowledge", "issue", "other"}

\* A decoded JSON object: has_run is `"run" in data`.
Plans(S, n) ==
    {[type |-> ty, message |-> "m", has_run |-> TRUE, run |-> rl] :
        ty \in PlanTypes, rl \in RunLists(S, n)}
    \cup {[type |-> ty, message |-> "m", has_run |-> FALSE, run |-> <<>>] :
        ty \in PlanTypes}

NoPlan == [type |-> "-", message |-> "", has_run |-> FALSE, run |-> <<>>]

\* A backend text: a payload, bare or inside a markdown fence.  The payload is
\* no JSON ("garbage"), JSON that is no object ("nonobject") or a JSON object.
Texts(P) ==
    {[present |-> TRUE, fence |-> f, kind |-> "object", plan |-> p] :
        f \in {"none", "json", "plain"}, p \in P}
    \cup {[present |-> TRUE, fence |-> f, kind |-> k, plan |-> NoPlan] :
        f \in {"none", "json"}, k \in {"garbage", "nonobject"}}

\* The same as the lines of the text: a line is a fence line (three backticks
\* and a tag) or a line of payload.  A fenced block is an opening fence line,
\* its content and a closing fence line without tag.
FenceLine(tag) == [fence |-> TRUE, tag |-> tag, kind |-> "-", plan |-> NoPlan]
BodyLine(kind, plan) == [fence |-> FALSE, tag |-> "", kind |-> kind, plan |-> plan]
Block(tag, kind, plan) == <<FenceLine(tag), BodyLine(kind, plan), FenceLine("")>>
FenceTags == {"", "json", "py"}
\* No lines at all: re.search found no match, the parser was not called.
NoMatch == <<[fence |-> FALSE, tag |-> "", kind |-> "none", plan |-> NoPlan]>>

LinesOf(reply) ==
    CASE reply.fence = "none" -> <<BodyLine(reply.kind, reply.plan)>>
      [] reply.fence = "json" -> Block("json", reply.kind, reply.plan)
      [] reply.fence = "plain" -> Block("", reply.kind, reply.plan)

\* The texts given to the plan parser alone: up to MaxSegments segments, each
\* a line of prose or a fenced block that holds one of two plans.
BlockPlans == {p \in Plans(Steps, 0) : p.type \in {"direct", "answer"} /\ ~p.has_run}
Segments ==
    {<<BodyLine("garbage", NoPlan)>>}
    \cup {Block(tag, "object", p) : tag \in FenceTags, p \in BlockPlans}

RECURSIVE Flatten(_)
Flatten(segs) == IF segs = <<>> THEN <<>> ELSE Head(segs) \o Flatten(Tail(segs))

FencedTexts == UNION {[1..k -> Segments] : k \in 0..MaxSegments}

\* call_api returns None on any exception or unknown provider.
NoResponse == [present |-> FALSE, fence |-> "none", kind |-> "garbage", plan |-> NoPlan]

MainReplies == Texts(Plans(Steps, MaxRun)) \cup {NoResponse}
IssuePlans == {p \in Plans(FixSteps, MaxFixRun) : p.type = "issue"}
IssueReplies == Texts(IssuePlans) \cup {NoResponse}

\* Text replies of the explanation and summarization requests.
ProseReplies == {NoResponse, [present |-> TRUE, fence |-> "none", kind |-> "garbage", plan |-> NoPlan]}

\* What the user types at the confirmation prompt.
Answers ==
    { <<"y", "e", "s">>, <<" ", "Y", "E", "S", " ">>, <<"y">>, <<"n", "o">>, <<>> }

\* What a shell command does: Popen raises (exc), or the process ends with the
\* raw text of its two streams.
Outcomes ==
    { [exc |-> FALSE, out |-> <<"o", " ">>, err |-> <<>>],
      [exc |-> FALSE, out |-> <<>>, err |-> <<"e", " ">>] }

\* The same, a stderr of white space only (which run_command strips to ""),
\* and a Popen that raises.
FixOutcomes ==
    Outcomes \cup { [exc |-> FALSE, out |-> <<>>, err |-> <<" ">>],
                    [exc |-> TRUE, out |-> <<>>, err |-> <<"e">>] }

Prompts == {"p1"}

\* A session.json that save_state wrote in an earlier session: n blocks, the
\* oldest first.  A timestamp is the turn that made the block, counted from
\* the first turn of this session (1), so stored blocks have 0 and below.
StoredBlocks(n) ==
    [i \in 1..n |->
        [timestamp |-> i - n, user_prompt |-> "p0", ai_plan |-> "m",
         summary |-> "summary", mode |-> "WORK", model |-> "deepseek-chat"]]

\* The stored histories a session starts from: none, one short of the cap,
\* at the cap.
HistoryLengths == {0, MaxHistory - 1, MaxHistory}

\* One resolution chain whose attempts differ: a task plan of one step that
\* writes "x" to stderr, repair plans of one step with either of two fix
\* commands, which write "e" to stderr when they fail.
ChainFixCommands == {"f1", "f2"}
ChainReplies ==
    {r \in Texts(Plans(Steps, 1)) :
        /\ r.fence = "none" /\ r.kind = "object"
        /\ r.plan.type = "task" /\ r.plan.run = <<[command |-> "c1", confirm |-> FALSE]>>}
ChainIssueReplies ==
    {[present |-> TRUE, fence |-> "none", kind |-> "object",
      plan |-> [type |-> "issue", message |-> "m", has_run |-> TRUE,
                run |-> <<[command |-> c, confirm |-> FALSE]>>]] : c \in ChainFixCommands}
ChainOutcomes ==
    { [exc |-> FALSE, out |-> <<"o", " ">>, err |-> <<>>],
      [exc |-> FALSE, out |-> <<>>, err |-> <<"x", " ">>] }

\* One plan of one step without confirmation, bare, in a ```json fence and in
\* a fence without tag: sent as the main plan and as a repair plan (the
\* resolver does not read the type of a repair plan).
RepairReplies ==
    {r \in Texts(Plans(Steps, 1)) :
        /\ r.kind = "object"
        /\ r.plan.type = "task" /\ r.plan.run = <<[command |-> "c1", confirm |-> FALSE]>>}
\* Its command succeeds or writes one of two texts to stderr.
RepairOutcomes == Outcomes \cup ChainOutcomes

\* config.json of the sessions above: DeepSeek enabled with a key and its two
\* models.
Chat == [name |-> "deepseek-chat", enabled |-> TRUE, has_max |-> TRUE, max_tokens |-> 8096]
Reasoner ==
    [name |-> "deepseek-reasoner", enabled |-> TRUE, has_max |-> TRUE, max_tokens |-> 64768]
Gpt4 == [name |-> "gpt-4", enabled |-> TRUE, has_max |-> TRUE, max_tokens |-> 4096]
Haiku ==
    [name |-> "claude-3-haiku-20240307", enabled |-> TRUE, has_max |-> TRUE,
     max_tokens |-> 4096]
ProviderEntry(name, enabled, key, models) ==
    [name |-> name, enabled |-> enabled, api_key |-> key, models |-> models,
     disabled_models |-> <<>>]
StoredConfig ==
    << ProviderEntry("DeepSeek", TRUE, "k", <<Chat, Reasoner>>),
       ProviderEntry("ChatGPT", FALSE, "", <<>>),
       ProviderEntry("Claude", FALSE, "", <<>>) >>

\* The config.json files a session starts from: DeepSeek enabled or not, its
\* models none, as fetched, as migrated from a list (with a "default"
\* entry), or edited by hand (an entry without max_tokens, a "default" entry
\* with or without); ChatGPT without key or disabled with a key and a model.
ChatBare == [name |-> "deepseek-chat", enabled |-> TRUE, has_max |-> FALSE, max_tokens |-> 0]
DefaultEntry(has_max, n) ==
    [name |-> "default", enabled |-> FALSE, has_max |-> has_max, max_tokens |-> n]
DeepSeekModels ==
    { <<>>,
      <<Chat, Reasoner>>,
      <<Chat, Reasoner, DefaultEntry(TRUE, 4096)>>,
      <<ChatBare, DefaultEntry(TRUE, 2048)>>,
      <<ChatBare, DefaultEntry(FALSE, 0)>>,
      <<ChatBare>> }
ConfigFiles ==
    { << ProviderEntry("DeepSeek", on, IF on THEN "k" ELSE "", ms),
         IF gpt THEN ProviderEntry("ChatGPT", FALSE, "k", <<Gpt4>>)
                ELSE ProviderEntry("ChatGPT", FALSE, "", <<>>),
         ProviderEntry("Claude", FALSE, "", <<>>) >> :
        on \in BOOLEAN, gpt \in BOOLEAN, ms \in DeepSeekModels }

\* fetch_provider_models: the provider's models, or [] when the request fails.
fetch_provider_models(provider, ok) ==
    IF ~ok THEN <<>>
    ELSE CASE provider = "DeepSeek" -> <<Chat, Reasoner>>
           [] provider = "ChatGPT" -> <<Gpt4>>
           [] OTHER -> <<Haiku>>

\* What the user types at SET MAX TOKENS>, and the plans of the sessions that
\* use the menus: no reply, an answer, a direct reply.
TokenInputs == { <<>>, <<"1", "0", "0">>, <<" ", "7">>, <<"x">> }
ConfigReplies ==
    {r \in Texts(Plans(Steps, 0)) :
        r.fence = "none" /\ r.kind = "object" /\ r.plan.type \in {"answer", "direct"}
            /\ ~r.plan.has_run}
    \cup {NoResponse}

\* The plans and the repair plans of the sessions that start from a stored
\* history: bare replies, run lists of at most one step.
HistoryReplies ==
    {r \in Texts(Plans(Steps, 1)) : r.fence = "none"} \cup {NoResponse}
HistoryIssueReplies ==
    {r \in Texts({p \in Plans(FixSteps, 1) : p.type = "issue" /\ p.has_run}) :
        r.fence = "none" /\ r.kind = "object"} \cup {NoResponse}

(***************************************************************************)
(* Session state (module globals) and the state of the turn in progress.   *)
(***************************************************************************)
VARIABLES
    AGENT_MODEL,      \* global AGENT_MODEL
    CURRENT_PROVIDER, \* global CURRENT_PROVIDER
    AGENT_MODE,       \* global AGENT_MODE: "WORK" or "ASK"
    history_blocks,   \* global history_blocks
    stop_requested,   \* global stop_requested
    HISTORY_VIEWER_ACTIVE,  \* global HISTORY_VIEWER_ACTIVE
    SELECTED_HISTORY_INDEX, \* global SELECTED_HISTORY_INDEX (0-based)
    keys,             \* keys pressed so far in the history viewer, in the menus and to cycle models
    saved_state,      \* session.json as last written by save_state
    turns,            \* prompts entered so far
    pc,               \* the blocking call the turn waits in ("prompt": none)
    user_prompt,      \* process_user_prompt: user_prompt
    history_text,     \* process_user_prompt: the entries of history_text
    data,             \* process_user_prompt: data (the parsed plan)
    color,            \* process_user_prompt: color
    hrc_depth,        \* handle_run_commands: depth
    idx,              \* handle_run_commands: position of cmd_item in run_list
    all_results,      \* handle_run_commands: all_results
    stdout,           \* handle_run_commands: stdout of the step at idx
    stderr,           \* handle_run_commands: stderr of the step at idx
    stack,            \* active calls of handle_error_recursion, outermost first
    issue_history,    \* handle_error_recursion: issue_history (one shared list)
    attempts_text,    \* handle_error_recursion: the attempts listed in attempts_text
    issue_data,       \* handle_error_recursion: issue_data of the innermost call
    fix_idx,          \* handle_error_recursion: position of cmd_item in issue_data["run"]
    last_ev,          \* the blocking call that returned last, with its result
    n_api,            \* call_api calls of this turn: main, explain, summary
    chains,           \* depth-0 calls of handle_error_recursion in this turn
    her_calls,        \* depths of the calls of handle_error_recursion of the
                      \* chain in progress (or of the last chain), in call order
    chain_reqs,       \* repair requests sent by that chain
    hrc_calls,        \* calls of handle_run_commands in this turn
    hrc_ret,          \* what handle_run_commands returned ("none": not yet)
    her_ret,          \* what the last depth-0 handle_error_recursion returned
    runs,             \* run_command calls of this turn per step of the run list
    fix_runs,         \* run_command calls made by that chain
    gave_up,          \* that chain logged "Giving up after 10 recursive attempts"
    appended,         \* history blocks appended by this turn
    proc,             \* the process of the last run_command: "none", "running",
                      \* "ended" (by itself) or "killed"
    raised,           \* the turn ended in main's `except Exception`
    text,             \* extract_json_from_markdown: text, as its segments
    extracted,        \* extract_json_from_markdown: the value returned (NoMatch: not called)
    config,           \* config.json as load_provider_config returns it
    PROVIDERS_VIEWER_ACTIVE, \* global PROVIDERS_VIEWER_ACTIVE
    SELECTED_PROVIDER_INDEX, \* global SELECTED_PROVIDER_INDEX (0-based)
    MODEL_SELECTOR_ACTIVE,   \* global MODEL_SELECTOR_ACTIVE
    SELECTED_MODEL_INDEX,    \* global SELECTED_MODEL_INDEX (0-based)
    provider_name,    \* show_model_selector: provider_name
    disabled_models,  \* show_model_selector: disabled_models
    spinners,         \* spinner threads started by call_api and not joined
    max_tokens        \* call_api: max_tokens of the last call (-1: no call yet)

parserVars == <<text, extracted>>
menuVars == <<config, PROVIDERS_VIEWER_ACTIVE, SELECTED_PROVIDER_INDEX, MODEL_SELECTOR_ACTIVE,
              SELECTED_MODEL_INDEX, provider_name, disabled_models>>
apiVars == <<spinners, max_tokens>>
globalVars == <<AGENT_MODE, history_blocks, stop_requested, turns,
                HISTORY_VIEWER_ACTIVE, SELECTED_HISTORY_INDEX, parserVars>>
selectorVars == <<MODEL_SELECTOR_ACTIVE, SELECTED_MODEL_INDEX, provider_name, disabled_models>>
viewerVars == <<HISTORY_VIEWER_ACTIVE, SELECTED_HISTORY_INDEX, keys>>
sessionVars == <<AGENT_MODEL, CURRENT_PROVIDER, AGENT_MODE, history_blocks,
                 stop_requested, saved_state, turns, viewerVars, parserVars, menuVars>>
turnVars == <<pc, user_prompt, history_text, data, color, hrc_depth, idx, all_results, stdout,
              stderr, stack, issue_history, attempts_text, issue_data, fix_idx, last_ev, n_api,
              chains, her_calls, chain_reqs, hrc_calls, hrc_ret, her_ret, runs, fix_runs, gave_up,
              appended, proc, raised>>
vars == <<sessionVars, turnVars, apiVars>>

\* The turn's variables as one record, so that the code between two blocking
\* calls composes as functions.
Cur ==
    [pc |-> pc, user_prompt |-> user_prompt, history_text |-> history_text,
     data |-> data, color |-> color,
     hrc_depth |-> hrc_depth, idx |-> idx, all_results |-> all_results,
     stdout |-> stdout, stderr |-> stderr, stack |-> stack,
     issue_history |-> issue_history, attempts_text |-> attempts_text,
     issue_data |-> issue_data,
     fix_idx |-> fix_idx, last_ev |-> last_ev, n_api |-> n_api,
     chains |-> chains, her_calls |-> her_calls, chain_reqs |-> chain_reqs,
     hrc_calls |-> hrc_calls, hrc_ret |-> hrc_ret, her_ret |-> her_ret,
     runs |-> runs, fix_runs |-> fix_runs, gave_up |-> gave_up,
     appended |-> appended, proc |-> proc, raised |-> raised]

Set(r) ==
    /\ pc' = r.pc
    /\ user_prompt' = r.user_prompt
    /\ history_text' = r.history_text
    /\ data' = r.data
    /\ color' = r.color
    /\ hrc_depth' = r.hrc_depth
    /\ idx' = r.idx
    /\ all_results' = r.all_results
    /\ stdout' = r.stdout
    /\ stderr' = r.stderr
    /\ stack' = r.stack
    /\ issue_history' = r.issue_history
    /\ attempts_text' = r.attempts_text
    /\ issue_data' = r.issue_data
    /\ fix_idx' = r.fix_idx
    /\ last_ev' = r.last_ev
    /\ n_api' = r.n_api
    /\ chains' = r.chains
    /\ her_calls' = r.her_calls
    /\ chain_reqs' = r.chain_reqs
    /\ hrc_calls' = r.hrc_calls
    /\ hrc_ret' = r.hrc_ret
    /\ her_ret' = r.her_ret
    /\ runs' = r.runs
    /\ fix_runs' = r.fix_runs
    /\ gave_up' = r.gave_up
    /\ appended' = r.appended
    /\ proc' = r.proc
    /\ raised' = r.raised

Ev(op, cmd, val) == [op |-> op, cmd |-> cmd, val |-> val]

\* What a backend reply is, as an event: "none" (no response), "fenced" (a
\* payload inside a markdown fence), or the kind of its bare payload.
ReplyClass(reply) ==
    IF ~reply.present THEN "none"
    ELSE IF reply.fence # "none" THEN "fenced"
    ELSE reply.kind
\* What the main reply carries, as an event: "none" (no response) or the kind
\* of its payload, fenced or bare.
ReplyKind(reply) == IF ~reply.present THEN "none" ELSE reply.kind
BoolStr(b) == IF b THEN "True" ELSE "False"

\* The turn before its first prompt, and the locals a returned frame leaves.
Idle ==
    [pc |-> "prompt", user_prompt |-> "", history_text |-> <<>>,
     data |-> NoPlan, color |-> NoColor,
     hrc_depth |-> 0, idx |-> 0, all_results |-> <<>>, stdout |-> None,
     stderr |-> None, stack |-> <<>>, issue_history |-> <<>>, attempts_text |-> <<>>,
     issue_data |-> NoPlan, fix_idx |-> 0, last_ev |-> Ev("none", "", ""),
     n_api |-> [main |-> 0, explain |-> 0, summary |-> 0],
     chains |-> 0, her_calls |-> <<>>, chain_reqs |-> 0,
     hrc_calls |-> 0, hrc_ret |-> "none", her_ret |-> "none", runs |-> <<>>,
     fix_runs |-> 0, gave_up |-> FALSE, appended |-> 0, proc |-> "none",
     raised |-> FALSE]

(***************************************************************************)
(* config.json: the providers in file order, each with its models in       *)
(* order (a dict keeps insertion order).                                   *)
(***************************************************************************)
\* provider_names of show_providers_viewer, and the branches of call_api.
ProviderNames == <<"DeepSeek", "ChatGPT", "Claude">>
KnownProviders == {"DeepSeek", "ChatGPT", "Claude"}

\* An entry of "models": enabled is model_config.get("enabled", True),
\* has_max is `"max_tokens" in model_config`.
ModelEntry(name, enabled, has_max, n) ==
    [name |-> name, enabled |-> enabled, has_max |-> has_max, max_tokens |-> n]

\* get_default_model_config: known_models, else 4096.
get_default_model_config(provider, model) ==
    ModelEntry(model, TRUE, TRUE,
        CASE provider = "DeepSeek" /\ model = "deepseek-chat" -> 8096
          [] provider = "DeepSeek" /\ model = "deepseek-reasoner" -> 64768
          [] OTHER -> 4096)

\* Dict access on a sequence of named entries.
Names(seq) == [i \in 1..Len(seq) |-> seq[i].name]
Has(seq, name) == \E i \in 1..Len(seq) : seq[i].name = name
At(seq, name) == seq[CHOOSE i \in 1..Len(seq) : seq[i].name = name]
Put(seq, entry) == [i \in 1..Len(seq) |-> IF seq[i].name = entry.name THEN entry ELSE seq[i]]
InSeq(x, seq) == \E i \in 1..Len(seq) : seq[i] = x

\* providers.get(name, {}).get("models", {})
ModelsOf(cfg, name) == IF Has(cfg, name) THEN At(cfg, name).models ELSE <<>>

\* get_model_max_tokens with the provider's default entry not consulted.
get_model_max_tokens_NoDefault(provider, model) ==
    LET models_config == ModelsOf(config, provider)
    IN IF Has(models_config, model) /\ At(models_config, model).has_max
       THEN At(models_config, model).max_tokens
       ELSE DefaultMaxTokens

\* The model's own max_tokens, else that of the provider's "default" entry,
\* else 4096.
get_model_max_tokens(provider, model) ==
    LET models_config == ModelsOf(config, provider)
    IN IF Has(models_config, model) /\ At(models_config, model).has_max
       THEN At(models_config, model).max_tokens
       ELSE IF Has(models_config, "default") /\ At(models_config, "default").has_max
       THEN At(models_config, "default").max_tokens
       ELSE DefaultMaxTokens

\* [name for name, config in providers.items() if config.get("enabled", False)]
EnabledProviders(cfg) == Names(SelectSeq(cfg, LAMBDA p : p.enabled))

\* enabled_models[0], else models[0], else "unknown-model", where
\* enabled_models = [m for m in models if m not in disabled_models]
FirstModel(p) ==
    LET enabled_models == SelectSeq(Names(p.models), LAMBDA m : ~InSeq(m, p.disabled_models))
    IN IF enabled_models # <<>> THEN enabled_models[1]
       ELSE IF p.models # <<>> THEN p.models[1].name
       ELSE "unknown-model"

\* any(provider.get("api_key", "") for provider in providers.values())
HasApiKey(cfg) == \E i \in 1..Len(cfg) : cfg[i].api_key # ""

\* The models of the enabled providers that are enabled, as pairs.
RECURSIVE AllModels(_)
AllModels(cfg) ==
    IF cfg = <<>> THEN <<>>
    ELSE LET p == Head(cfg)
             ms == SelectSeq(p.models, LAMBDA m : m.enabled)
         IN (IF p.enabled THEN [i \in 1..Len(ms) |-> <<p.name, ms[i].name>>] ELSE <<>>)
                \o AllModels(Tail(cfg))

\* The spinner threads of call_api: one is started when a call begins, which
\* is when a step of the turn ends in a backend call.
ApiPcs == {"api_main", "api_issue", "api_explain", "api_summary"}

\* A step of the turn that is no return of call_api.
NoCall ==
    /\ max_tokens' = max_tokens
    /\ spinners' = spinners + (IF pc' \in ApiPcs THEN 1 ELSE 0)

\* call_api returns reply: the budget it used; with an unknown provider it
\* returns None with its spinner left running, else the spinner has been
\* stopped and joined.
call_api(reply) ==
    /\ CURRENT_PROVIDER \notin KnownProviders => reply = NoResponse
    /\ max_tokens' = get_model_max_tokens(CURRENT_PROVIDER, AGENT_MODEL)
    /\ spinners' = spinners - (IF CURRENT_PROVIDER \in KnownProviders THEN 1 ELSE 0)
                            + (IF pc' \in ApiPcs THEN 1 ELSE 0)

(***************************************************************************)
(* Leaves: the confirmation prompt, the executor, the plan parser.         *)
(***************************************************************************)
\* answer = input().strip().lower(); return answer == "yes"
ask_user_confirmation(answer) == Lower(Strip(answer)) = <<"y", "e", "s">>

\* run_command: (None, str(e)) when Popen raises, (None, "Stopped by user")
\* when the stop flag is set, else (stdout.strip(), stderr.strip() if stderr else None).
\* return None, "Stopped by user"
StoppedByUser == <<"S", "t", "o", "p">>

\* process.communicate() returns when the process has ended by itself, so the
\* process.kill() of the stop branch finds it ended.
run_command(o) ==
    IF o.exc THEN [stdout |-> None, stderr |-> o.err, process |-> "none"]
    ELSE IF stop_requested
         THEN [stdout |-> None, stderr |-> StoppedByUser, process |-> "ended"]
         ELSE [stdout |-> Strip(o.out),
               stderr |-> IF o.err # <<>> THEN Strip(o.err) ELSE None,
               process |-> "ended"]

\* re.search(r"```<tag>\s*\n(.*?)\n```", lines, re.DOTALL) for the tags
\* given: the leftmost fence line with one of the tags that has a later fence
\* line at least one line below it; group(1) is everything between the two,
\* up to the nearest such fence line.  A closing fence line is a fence line
\* without tag, so it matches as an opening one too.
re_search(lines, tags) ==
    LET Closes(i) == {j \in (i + 2)..Len(lines) : lines[j].fence}
        Opens == {i \in 1..Len(lines) :
                     lines[i].fence /\ lines[i].tag \in tags /\ Closes(i) # {}}
        first == CHOOSE i \in Opens : \A k \in Opens : i <= k
        close == CHOOSE j \in Closes(first) : \A k \in Closes(first) : j <= k
    IN IF Opens = {} THEN NoMatch ELSE SubSeq(lines, first + 1, close - 1)

\* The first pattern, ```(?:json)?\s*\n(.*?)\n```, has an optional tag; the
\* second, ```.*?\n(.*?)\n```, takes any tag; else the text itself.
extract_json_from_markdown(lines) ==
    IF re_search(lines, {"", "json"}) # NoMatch THEN re_search(lines, {"", "json"})
    ELSE IF re_search(lines, FenceTags) # NoMatch THEN re_search(lines, FenceTags)
    ELSE lines

\* json.loads: raises on anything but one line of JSON.
json_loads(lines) ==
    IF Len(lines) # 1 \/ lines[1].fence \/ lines[1].kind = "garbage"
    THEN [ok |-> FALSE, kind |-> "garbage", plan |-> NoPlan]
    ELSE [ok |-> TRUE, kind |-> lines[1].kind, plan |-> lines[1].plan]

(***************************************************************************)
(* process_user_prompt, after the plan: the ways a turn ends.              *)
(***************************************************************************)
\* `return` of process_user_prompt: back at the prompt of main's loop.  The
\* locals of the pipeline and of the resolver are gone; what the turn did
\* (plan, calls made, values returned) stays readable until the next prompt.
Return(r) ==
    [Idle EXCEPT !.user_prompt = r.user_prompt, !.data = r.data,
                 !.color = r.color, !.last_ev = r.last_ev, !.n_api = r.n_api,
                 !.chains = r.chains, !.hrc_calls = r.hrc_calls,
                 !.hrc_ret = r.hrc_ret, !.her_ret = r.her_ret,
                 !.gave_up = r.gave_up, !.appended = r.appended,
                 !.raised = r.raised]

\* An exception nothing below main catches: main logs it and prompts again.
Raise(r) == Return([r EXCEPT !.raised = TRUE])

\* create_history_block up to summarize_block's call_api.
create_history_block(r) ==
    [r EXCEPT !.pc = "api_summary", !.n_api.summary = @ + 1]

(***************************************************************************)
(* handle_run_commands.                                                    *)
(***************************************************************************)
Item(r) == r.data.run[r.idx]

\* HrcReturn with the turn ended when the pipeline has failed
\* (if not handle_run_commands(...): return).
HrcReturn_SkipOnFalse(r, value) ==
    IF value = "False"
    THEN Return([r EXCEPT !.hrc_ret = value])
    ELSE create_history_block([r EXCEPT !.hrc_ret = value])

\* return of handle_run_commands; process_user_prompt drops the value and
\* goes on to create_history_block.
HrcReturn(r, value) == create_history_block([r EXCEPT !.hrc_ret = value])

\* HrcEnd without the test of the color.
HrcEnd_AnyColor(r) ==
    IF r.all_results # <<>>
    THEN [r EXCEPT !.pc = "api_explain", !.n_api.explain = @ + 1]
    ELSE create_history_block([r EXCEPT !.hrc_ret = "True"])

\* HrcEnd without the test of all_results.
HrcEnd_NoResults(r) ==
    IF r.color = GREEN
    THEN [r EXCEPT !.pc = "api_explain", !.n_api.explain = @ + 1]
    ELSE create_history_block([r EXCEPT !.hrc_ret = "True"])

\* After the loop: one explanation request, for a query plan with results.
HrcEnd(r) ==
    IF r.all_results # <<>> /\ r.color = GREEN
    THEN [r EXCEPT !.pc = "api_explain", !.n_api.explain = @ + 1]
    ELSE HrcReturn(r, "True")

\* stdout, stderr = run_command(command): the command is in flight.
HrcRun(r) == [r EXCEPT !.pc = "run", !.runs[r.idx] = @ + 1, !.proc = "running"]

\* HrcLoop without the confirmation gate.
HrcLoop_NoGate(r) ==
    IF r.idx > Len(r.data.run) THEN HrcEnd(r)
    ELSE IF stop_requested THEN HrcReturn(r, "False")
    ELSE HrcRun(r)

\* Top of the loop body for the step at idx, up to the confirmation prompt
\* or the command.
HrcLoop(r) ==
    IF r.idx > Len(r.data.run) THEN HrcEnd(r)
    ELSE IF stop_requested THEN HrcReturn(r, "False")
    ELSE IF Item(r).confirm THEN [r EXCEPT !.pc = "confirm"]
    ELSE HrcRun(r)

\* HrcConfirmed with `return False` where the code has `continue`.
HrcConfirmed_Abort(r, answer) ==
    LET ok == ask_user_confirmation(answer)
        r1 == [r EXCEPT !.last_ev = Ev("ask", r.data.run[r.idx].command, BoolStr(ok))]
    IN IF ~ok THEN HrcReturn(r1, "False") ELSE HrcRun(r1)

\* if confirm: if not ask_user_confirmation(command): ... continue
HrcConfirmed(r, answer) ==
    LET ok == ask_user_confirmation(answer)
        r1 == [r EXCEPT !.last_ev = Ev("ask", Item(r).command, BoolStr(ok))]
    IN IF ~ok THEN HrcLoop([r1 EXCEPT !.idx = @ + 1]) ELSE HrcRun(r1)

\* all_results.append(...) and the next iteration.
HrcRecord(r) ==
    HrcLoop([r EXCEPT
        !.all_results = Append(@, [command |-> Item(r).command,
                                   stdout |-> r.stdout, stderr |-> r.stderr]),
        !.idx = @ + 1])

\* AfterResolver with the resolver's value dropped.
AfterResolver_Ignore(r, success) == HrcRecord(r)

\* AfterResolver running the repaired step again.
AfterResolver_Retry(r, success) ==
    IF success # "True" THEN HrcReturn(r, "False") ELSE HrcRun(r)

\* success = handle_error_recursion(...); if not success: return False
AfterResolver(r, success) ==
    IF success # "True" THEN HrcReturn(r, "False") ELSE HrcRecord(r)

(***************************************************************************)
(* handle_error_recursion.                                                 *)
(***************************************************************************)
FixItem(r) == r.issue_data.run[r.fix_idx]
Depth(r) == r.stack[Len(r.stack)].depth

\* Propagate for a recursive call whose value is not returned.
Propagate_Drop(value) == "False"

\* return handle_error_recursion(...): a frame hands on its callee's value.
Propagate(value) == value

RECURSIVE Unwind(_, _)
Unwind(frames, value) ==
    IF Len(frames) <= 1 THEN value
    ELSE Unwind(SubSeq(frames, 1, Len(frames) - 1), Propagate(value))

\* The innermost call returns value; it reaches the pipeline through every
\* enclosing call.
HerReturn(r, value) ==
    LET v == Unwind(r.stack, value)
    IN AfterResolver([r EXCEPT !.her_ret = v, !.stack = <<>>,
                               !.issue_history = <<>>, !.attempts_text = <<>>,
                               !.issue_data = NoPlan,
                               !.fix_idx = 0], v)

\* AttemptsText listing the last attempt only (issue_history[-1:]).
AttemptsText_LastOnly(history) ==
    IF history = <<>> THEN <<>> ELSE <<history[Len(history)]>>

\* for item in issue_history[-20:]: "- Command: ... Error: ..."
AttemptsText(history) ==
    LET first == IF Len(history) > AttemptWindow THEN Len(history) - AttemptWindow ELSE 0
    IN [i \in 1..(Len(history) - first) |->
           [command |-> history[first + i].command, stderr |-> history[first + i].stderr]]

\* handle_error_recursion with the limit test `depth > 10`.
handle_error_recursion_OffByOne(r, failed_cmd, err, out, depth, history) ==
    LET r1 == [r EXCEPT !.stack = Append(@, [failed_cmd |-> failed_cmd,
                                             stderr |-> err, depth |-> depth]),
                        !.issue_history = history,
                        !.her_calls = Append(@, depth)]
    IN IF depth > MaxDepth
       THEN HerReturn([r1 EXCEPT !.gave_up = TRUE], "False")
       ELSE [r1 EXCEPT !.pc = "api_issue", !.chain_reqs = @ + 1,
                       !.attempts_text = AttemptsText(history),
                       !.issue_data = NoPlan, !.fix_idx = 0]

\* handle_error_recursion without the limit test.
handle_error_recursion_NoLimit(r, failed_cmd, err, out, depth, history) ==
    [r EXCEPT !.stack = Append(@, [failed_cmd |-> failed_cmd,
                                   stderr |-> err, depth |-> depth]),
              !.issue_history = history,
              !.her_calls = Append(@, depth),
              !.pc = "api_issue", !.chain_reqs = @ + 1,
              !.attempts_text = AttemptsText(history),
              !.issue_data = NoPlan, !.fix_idx = 0]

\* Entry of a call, up to its call_api.
handle_error_recursion(r, failed_cmd, err, out, depth, history) ==
    LET r1 == [r EXCEPT !.stack = Append(@, [failed_cmd |-> failed_cmd,
                                             stderr |-> err, depth |-> depth]),
                        !.issue_history = history,
                        !.her_calls = Append(@, depth)]
    IN IF depth >= MaxDepth
       THEN HerReturn([r1 EXCEPT !.gave_up = TRUE], "False")
       ELSE [r1 EXCEPT !.pc = "api_issue", !.chain_reqs = @ + 1,
                       !.attempts_text = AttemptsText(history),
                       !.issue_data = NoPlan, !.fix_idx = 0]

\* stdout_new, stderr_new = run_command(command): the fix is in flight.
HerRun(r) == [r EXCEPT !.pc = "run_fix", !.fix_runs = @ + 1, !.proc = "running"]

\* for cmd_item in issue_data["run"], up to the confirmation prompt or the
\* command; `return False` after a loop that ran no iteration.
HerLoop(r) ==
    IF ~r.issue_data.has_run \/ r.fix_idx > Len(r.issue_data.run)
    THEN HerReturn(r, "False")
    ELSE IF stop_requested THEN HerReturn(r, "False")
    ELSE IF FixItem(r).confirm THEN [r EXCEPT !.pc = "confirm_fix"]
    ELSE HerRun(r)

\* HerReply with the fenced-block extraction of the main path.
HerReply_Extract(r, reply) ==
    LET r1 == [r EXCEPT !.last_ev = Ev("api", "issue", ReplyClass(reply))]
        d == json_loads(extract_json_from_markdown(LinesOf(reply)))
    IN IF ~reply.present \/ stop_requested THEN HerReturn(r1, "False")
       ELSE IF ~d.ok THEN HerReturn(r1, "False")
       ELSE IF d.kind # "object" THEN Raise(r1)
       ELSE HerLoop([r1 EXCEPT !.issue_data = d.plan, !.fix_idx = 1])

\* response = call_api(messages) has returned.
HerReply(r, reply) ==
    LET r1 == [r EXCEPT !.last_ev =
                   Ev("api", "issue", ReplyClass(reply))]
        d == json_loads(LinesOf(reply))
    IN IF ~reply.present \/ stop_requested THEN HerReturn(r1, "False")
       ELSE IF ~d.ok THEN HerReturn(r1, "False")
       ELSE IF d.kind # "object" THEN Raise(r1)
       ELSE HerLoop([r1 EXCEPT !.issue_data = d.plan, !.fix_idx = 1])

\* HerConfirmed with `continue` where the code has `return False`.
HerConfirmed_Skip(r, answer) ==
    LET ok == ask_user_confirmation(answer)
        r1 == [r EXCEPT !.last_ev =
                   Ev("ask", r.issue_data.run[r.fix_idx].command, BoolStr(ok))]
    IN IF ~ok THEN HerLoop([r1 EXCEPT !.fix_idx = @ + 1]) ELSE HerRun(r1)

\* if confirm: if not ask_user_confirmation(command): ... return False
HerConfirmed(r, answer) ==
    LET ok == ask_user_confirmation(answer)
        r1 == [r EXCEPT !.last_ev = Ev("ask", FixItem(r).command, BoolStr(ok))]
    IN IF ~ok THEN HerReturn(r1, "False") ELSE HerRun(r1)

\* HerResult going on to the next resolution step after a success.
HerResult_Continue(r, o) ==
    LET res == run_command(o)
        cmd == r.issue_data.run[r.fix_idx].command
        r1 == [r EXCEPT !.proc = res.process, !.last_ev =
                   Ev("run", cmd, IF Truthy(res.stderr) THEN "err" ELSE "ok")]
    IN IF Truthy(res.stderr)
       THEN handle_error_recursion(r1, cmd, res.stderr, res.stdout, Depth(r) + 1,
                Append(r.issue_history, [command |-> cmd, stderr |-> res.stderr]))
       ELSE HerLoop([r1 EXCEPT !.fix_idx = @ + 1])

\* HerResult with the failed fix command left out of issue_history.
HerResult_NoAppend(r, o) ==
    LET res == run_command(o)
        cmd == r.issue_data.run[r.fix_idx].command
        r1 == [r EXCEPT !.proc = res.process, !.last_ev =
                   Ev("run", cmd, IF Truthy(res.stderr) THEN "err" ELSE "ok")]
    IN IF Truthy(res.stderr)
       THEN handle_error_recursion(r1, cmd, res.stderr, res.stdout, Depth(r) + 1,
                r.issue_history)
       ELSE HerReturn(r1, "True")

\* HerResult going on to the next resolution step after a failure.
HerResult_NextOnFailure(r, o) ==
    LET res == run_command(o)
        cmd == r.issue_data.run[r.fix_idx].command
        r1 == [r EXCEPT !.proc = res.process, !.last_ev =
                   Ev("run", cmd, IF Truthy(res.stderr) THEN "err" ELSE "ok")]
    IN IF Truthy(res.stderr)
       THEN HerLoop([r1 EXCEPT !.fix_idx = @ + 1])
       ELSE HerReturn(r1, "True")

\* run_command(command) has returned in handle_error_recursion.
HerResult(r, o) ==
    LET res == run_command(o)
        cmd == FixItem(r).command
        r1 == [r EXCEPT !.proc = res.process, !.last_ev =
                   Ev("run", cmd, IF Truthy(res.stderr) THEN "err" ELSE "ok")]
    IN IF Truthy(res.stderr)
       THEN handle_error_recursion(r1, cmd, res.stderr, res.stdout, Depth(r) + 1,
                Append(r.issue_history, [command |-> cmd, stderr |-> res.stderr]))
       ELSE HerReturn(r1, "True")

(***************************************************************************)
(* handle_run_commands, after run_command has returned.                    *)
(***************************************************************************)
\* Repaired with the steps of a query plan repaired too.
Repaired_WithGreen(c) == c \in {GREEN, BLUE, RED}

\* The colors whose steps are repaired: if color in [Color.BLUE, Color.RED]
Repaired(c) == c \in {BLUE, RED}

\* HrcResult starting a chain at the depth the chains before it have reached.
HrcResult_CarryOver(r, o) ==
    LET res == run_command(o)
        cmd == r.data.run[r.idx].command
        r1 == [r EXCEPT !.stdout = res.stdout, !.stderr = res.stderr,
                        !.proc = res.process,
                        !.last_ev =
                            Ev("run", cmd, IF Truthy(res.stderr) THEN "err" ELSE "ok")]
    IN IF stop_requested THEN HrcReturn(r1, "False")
       ELSE IF Truthy(res.stderr) /\ Repaired(r.color)
       THEN handle_error_recursion(
                [r1 EXCEPT !.chains = @ + 1, !.her_calls = <<>>, !.chain_reqs = 0,
                           !.fix_runs = 0, !.gave_up = FALSE],
                cmd, res.stderr, res.stdout, r.hrc_depth + r.fix_runs, <<>>)
       ELSE HrcRecord(r1)

HrcResult(r, o) ==
    LET res == run_command(o)
        cmd == Item(r).command
        r1 == [r EXCEPT !.stdout = res.stdout, !.stderr = res.stderr,
                        !.proc = res.process,
                        !.last_ev =
                            Ev("run", cmd, IF Truthy(res.stderr) THEN "err" ELSE "ok")]
    IN IF stop_requested THEN HrcReturn(r1, "False")
       ELSE IF Truthy(res.stderr) /\ Repaired(r.color)
       THEN handle_error_recursion(
                [r1 EXCEPT !.chains = @ + 1, !.her_calls = <<>>, !.chain_reqs = 0,
                           !.fix_runs = 0, !.gave_up = FALSE],
                cmd, res.stderr, res.stdout, r.hrc_depth, <<>>)
       ELSE HrcRecord(r1)

\* HrcExplained with a failed explanation request failing the pipeline.
HrcExplained_Checked(r, reply) ==
    HrcReturn([r EXCEPT !.last_ev = Ev("api", "explain", ReplyClass(reply))],
              IF reply.present THEN "True" ELSE "False")

\* explanation = get_final_explanation(...) has returned; return True
HrcExplained(r, reply) ==
    HrcReturn([r EXCEPT !.last_ev =
                   Ev("api", "explain", ReplyClass(reply))],
              "True")

handle_run_commands(r, run_list, col, depth) ==
    HrcLoop([r EXCEPT !.hrc_calls = @ + 1, !.hrc_depth = depth, !.idx = 1,
                      !.all_results = <<>>,
                      !.runs = [i \in 1..Len(run_list) |-> 0]])

(***************************************************************************)
(* process_user_prompt.                                                    *)
(***************************************************************************)
\* HistoryText over a window of the most recent 20 blocks.
HistoryText_Window(blocks) ==
    LET first == IF Len(blocks) > 20 THEN Len(blocks) - 20 ELSE 0
    IN [i \in 1..(Len(blocks) - first) |->
           [n |-> i, user_prompt |-> blocks[first + i].user_prompt,
            summary |-> blocks[first + i].summary]]

\* for i, block in enumerate(history_blocks, 1): "{i}) User: ... Agent: ..."
HistoryText(blocks) ==
    [i \in 1..Len(blocks) |->
        [n |-> i, user_prompt |-> blocks[i].user_prompt, summary |-> blocks[i].summary]]

\* Up to the main call_api.
process_user_prompt(prompt) ==
    [Idle EXCEPT !.pc = "api_main", !.user_prompt = prompt,
                 !.history_text = HistoryText(history_blocks),
                 !.last_ev = Ev("prompt", "", ""), !.n_api.main = 1]

\* if "run" in data: handle_run_commands(data["run"], color, 0, ...);
\* create_history_block(user_prompt, message)
Execute(r) ==
    IF r.data.has_run
    THEN handle_run_commands(r, r.data.run, r.color, 0)
    ELSE create_history_block(r)

\* Dispatch with the `return` of the knowledge branch missing.
Dispatch_FallThrough(r) ==
    LET ty == r.data.type
    IN CASE ty = "query" -> Execute([r EXCEPT !.color = GREEN])
         [] ty = "task" -> Execute([r EXCEPT !.color = BLUE])
         [] ty = "direct" -> Return([r EXCEPT !.color = CYAN])
         [] ty = "knowledge" -> Execute([r EXCEPT !.color = YELLOW])
         [] ty = "answer" -> create_history_block([r EXCEPT !.color = MAGENTA])
         [] OTHER -> Execute([r EXCEPT !.color = WHITE])

\* Dispatch with a fallback branch that ends the turn.
Dispatch_FallbackNoOp(r) ==
    LET ty == r.data.type
    IN CASE ty = "query" -> Execute([r EXCEPT !.color = GREEN])
         [] ty = "task" -> Execute([r EXCEPT !.color = BLUE])
         [] ty = "direct" -> Return([r EXCEPT !.color = CYAN])
         [] ty = "knowledge" -> Return([r EXCEPT !.color = YELLOW])
         [] ty = "answer" -> create_history_block([r EXCEPT !.color = MAGENTA])
         [] OTHER -> Return([r EXCEPT !.color = WHITE])

\* Dispatch running no command in ASK mode.
Dispatch_AskRunsNothing(r) ==
    LET ty == r.data.type
    IN CASE ty = "query" -> IF AGENT_MODE = "ASK" THEN create_history_block([r EXCEPT !.color = GREEN])
                            ELSE Execute([r EXCEPT !.color = GREEN])
         [] ty = "task" -> IF AGENT_MODE = "ASK" THEN create_history_block([r EXCEPT !.color = BLUE])
                           ELSE Execute([r EXCEPT !.color = BLUE])
         [] ty = "direct" -> Return([r EXCEPT !.color = CYAN])
         [] ty = "knowledge" -> Return([r EXCEPT !.color = YELLOW])
         [] ty = "answer" -> create_history_block([r EXCEPT !.color = MAGENTA])
         [] OTHER -> Execute([r EXCEPT !.color = WHITE])

\* The dispatch on data.get("type", "").
Dispatch(r) ==
    LET ty == r.data.type
    IN CASE ty = "query" -> Execute([r EXCEPT !.color = GREEN])
         [] ty = "task" -> Execute([r EXCEPT !.color = BLUE])
         [] ty = "direct" -> Return([r EXCEPT !.color = CYAN])
         [] ty = "knowledge" -> Return([r EXCEPT !.color = YELLOW])
         [] ty = "answer" -> create_history_block([r EXCEPT !.color = MAGENTA])
         [] OTHER -> Execute([r EXCEPT !.color = WHITE])

\* MainReplied with a history block made for a turn the backend failed.
MainReplied_BlockOnFailure(r, reply) ==
    LET r1 == [r EXCEPT !.last_ev = Ev("api", "main", ReplyKind(reply))]
        d == json_loads(extract_json_from_markdown(LinesOf(reply)))
    IN IF ~reply.present THEN create_history_block(r1)
       ELSE IF ~d.ok THEN Return(r1)
       ELSE IF d.kind # "object" THEN Raise(r1)
       ELSE Dispatch([r1 EXCEPT !.data = d.plan])

\* MainReplied with the plan requested again after a reply that is no JSON.
MainReplied_Retry(r, reply) ==
    LET r1 == [r EXCEPT !.last_ev = Ev("api", "main", ReplyKind(reply))]
        d == json_loads(extract_json_from_markdown(LinesOf(reply)))
    IN IF ~reply.present THEN Return(r1)
       ELSE IF ~d.ok THEN [r1 EXCEPT !.pc = "api_main", !.n_api.main = @ + 1]
       ELSE IF d.kind # "object" THEN Raise(r1)
       ELSE Dispatch([r1 EXCEPT !.data = d.plan])

\* response = call_api(messages) has returned.
MainReplied(r, reply) ==
    LET r1 == [r EXCEPT !.last_ev = Ev("api", "main", ReplyKind(reply))]
        d == json_loads(extract_json_from_markdown(LinesOf(reply)))
    IN IF ~reply.present THEN Return(r1)
       ELSE IF ~d.ok THEN Return(r1)
       ELSE IF d.kind # "object" THEN Raise(r1)
       ELSE Dispatch([r1 EXCEPT !.data = d.plan])

\* summarize_block with the empty string for a failed call.
summarize_block_Empty(reply) ==
    IF reply.present THEN "summary" ELSE ""

\* summarize_block: the reply, or the placeholder.
summarize_block(reply) ==
    IF reply.present THEN "summary" ELSE "No summary available"

\* AppendBlock without the cap.
AppendBlock_NoCap(blocks, block) == Append(blocks, block)

\* AppendBlock keeping the first 50 (history_blocks[:50]).
AppendBlock_KeepOldest(blocks, block) ==
    LET all == Append(blocks, block)
    IN IF Len(all) > MaxHistory THEN SubSeq(all, 1, MaxHistory) ELSE all

\* history_blocks.append(history_block); keep the last 50.
AppendBlock(blocks, block) ==
    LET all == Append(blocks, block)
    IN IF Len(all) > MaxHistory
       THEN SubSeq(all, Len(all) - MaxHistory + 1, Len(all))
       ELSE all

\* The content save_state writes.
SessionState(model, mode, provider, blocks) ==
    [model |-> model, mode |-> mode, provider |-> provider, history_blocks |-> blocks]

(***************************************************************************)
(* The state after main has loaded the session.                            *)
(***************************************************************************)
\* main up to its first prompt: load_state from a session.json that holds
\* the given blocks, provider and model set from the first enabled provider
\* of config.json (else the defaults), and the providers viewer forced when
\* no provider has an API key.
main_startup(blocks, cfg) ==
    /\ config = cfg
    /\ CURRENT_PROVIDER =
           (IF EnabledProviders(cfg) # <<>> THEN EnabledProviders(cfg)[1] ELSE "DeepSeek")
    /\ AGENT_MODEL =
           (IF EnabledProviders(cfg) # <<>>
            THEN FirstModel(At(cfg, EnabledProviders(cfg)[1]))
            ELSE "deepseek-chat")
    /\ AGENT_MODE = "WORK"
    /\ history_blocks = blocks
    /\ stop_requested = FALSE
    /\ HISTORY_VIEWER_ACTIVE = FALSE
    /\ SELECTED_HISTORY_INDEX = 0
    /\ PROVIDERS_VIEWER_ACTIVE = ~HasApiKey(cfg)
    /\ SELECTED_PROVIDER_INDEX = 0
    /\ MODEL_SELECTOR_ACTIVE = FALSE
    /\ SELECTED_MODEL_INDEX = 0
    /\ provider_name = ""
    /\ disabled_models = <<>>
    /\ spinners = 0
    /\ max_tokens = -1
    /\ keys = 0
    /\ saved_state = SessionState("deepseek-chat", "WORK", "DeepSeek", blocks)
    /\ turns = 0
    /\ pc = (IF HasApiKey(cfg) THEN Idle.pc ELSE "providers")
    /\ user_prompt = Idle.user_prompt
    /\ history_text = Idle.history_text
    /\ data = Idle.data
    /\ color = Idle.color
    /\ hrc_depth = Idle.hrc_depth
    /\ idx = Idle.idx
    /\ all_results = Idle.all_results
    /\ stdout = Idle.stdout
    /\ stderr = Idle.stderr
    /\ stack = Idle.stack
    /\ issue_history = Idle.issue_history
    /\ attempts_text = Idle.attempts_text
    /\ issue_data = Idle.issue_data
    /\ fix_idx = Idle.fix_idx
    /\ last_ev = Idle.last_ev
    /\ n_api = Idle.n_api
    /\ chains = Idle.chains
    /\ her_calls = Idle.her_calls
    /\ chain_reqs = Idle.chain_reqs
    /\ hrc_calls = Idle.hrc_calls
    /\ hrc_ret = Idle.hrc_ret
    /\ her_ret = Idle.her_ret
    /\ runs = Idle.runs
    /\ fix_runs = Idle.fix_runs
    /\ gave_up = Idle.gave_up
    /\ appended = Idle.appended
    /\ proc = Idle.proc
    /\ raised = Idle.raised
    /\ text = <<>>
    /\ extracted = NoMatch

\* The same with the config.json of a provider set up earlier.
load_state(blocks) == main_startup(blocks, StoredConfig)

\* A first run after the provider was set up: no session.json.
Init == load_state(<<>>)

(***************************************************************************)
(* Actions: one per blocking call that returns.                            *)
(***************************************************************************)
\* main: a prompt is entered; process_user_prompt runs to its call_api.
EnterPrompt(prompt) ==
    /\ pc = "prompt"
    /\ turns < MaxTurns
    /\ turns' = turns + 1
    /\ stop_requested' = FALSE
    /\ Set(process_user_prompt(prompt))
    /\ NoCall
    /\ UNCHANGED <<AGENT_MODEL, CURRENT_PROVIDER, AGENT_MODE, history_blocks, saved_state>>
    /\ UNCHANGED <<viewerVars, parserVars, menuVars>>

\* main: ctrl+p toggles the mode and saves.
ToggleMode ==
    /\ pc = "prompt"
    /\ AGENT_MODE' = IF AGENT_MODE = "WORK" THEN "ASK" ELSE "WORK"
    /\ saved_state' = SessionState(AGENT_MODEL, AGENT_MODE', CURRENT_PROVIDER, history_blocks)
    /\ UNCHANGED <<AGENT_MODEL, CURRENT_PROVIDER, history_blocks, stop_requested, turns>>
    /\ UNCHANGED <<viewerVars, parserVars, menuVars>>
    /\ UNCHANGED turnVars
    /\ UNCHANGED apiVars

MainReply(reply) ==
    /\ pc = "api_main"
    /\ Set(MainReplied(Cur, reply))
    /\ call_api(reply)
    /\ UNCHANGED sessionVars

ConfirmAnswer(answer) ==
    /\ pc = "confirm"
    /\ Set(HrcConfirmed(Cur, answer))
    /\ NoCall
    /\ UNCHANGED sessionVars

CommandDone(o) ==
    /\ pc = "run"
    /\ Set(HrcResult(Cur, o))
    /\ NoCall
    /\ UNCHANGED sessionVars

IssueReply(reply) ==
    /\ pc = "api_issue"
    /\ Set(HerReply(Cur, reply))
    /\ call_api(reply)
    /\ UNCHANGED sessionVars

FixConfirmAnswer(answer) ==
    /\ pc = "confirm_fix"
    /\ Set(HerConfirmed(Cur, answer))
    /\ NoCall
    /\ UNCHANGED sessionVars

FixCommandDone(o) ==
    /\ pc = "run_fix"
    /\ Set(HerResult(Cur, o))
    /\ NoCall
    /\ UNCHANGED sessionVars

ExplainReply(reply) ==
    /\ pc = "api_explain"
    /\ Set(HrcExplained(Cur, reply))
    /\ call_api(reply)
    /\ UNCHANGED sessionVars

\* summarize_block's call_api has returned: the block is appended and the
\* session saved (create_history_block, then process_user_prompt).
SummaryReply(reply) ==
    /\ pc = "api_summary"
    /\ history_blocks' = AppendBlock(history_blocks,
           [timestamp |-> turns, user_prompt |-> user_prompt,
            ai_plan |-> data.message, summary |-> summarize_block(reply),
            mode |-> AGENT_MODE, model |-> AGENT_MODEL])
    /\ saved_state' = SessionState(AGENT_MODEL, AGENT_MODE, CURRENT_PROVIDER, history_blocks')
    /\ Set(Return([Cur EXCEPT !.appended = @ + 1, !.last_ev =
           Ev("api", "summary", ReplyClass(reply))]))
    /\ call_api(reply)
    /\ UNCHANGED <<AGENT_MODEL, CURRENT_PROVIDER, AGENT_MODE, stop_requested, turns>>
    /\ UNCHANGED <<viewerVars, parserVars, menuVars>>

(***************************************************************************)
(* The history viewer (show_history_viewer), one action per key.           *)
(***************************************************************************)
\* DeleteAt removing the oldest entry whatever the selection.
DeleteAt_First(blocks, i) == Tail(blocks)

\* del history_blocks[i], i counted from 0
DeleteAt(blocks, i) ==
    [j \in 1..(Len(blocks) - 1) |-> IF j <= i THEN blocks[j] ELSE blocks[j + 1]]

\* main: ctrl+h.  With no history the viewer prints a notice and returns.
OpenViewer ==
    /\ pc = "prompt"
    /\ HISTORY_VIEWER_ACTIVE' = TRUE
    /\ SELECTED_HISTORY_INDEX' = 0
    /\ Set([Cur EXCEPT !.pc = IF history_blocks = <<>> THEN "prompt" ELSE "viewer"])
    /\ UNCHANGED <<AGENT_MODEL, CURRENT_PROVIDER, AGENT_MODE, history_blocks,
                   stop_requested, saved_state, turns, keys, parserVars, menuVars>>
    /\ UNCHANGED apiVars

\* BACKSPACE: leave the viewer.
ViewerBack ==
    /\ pc = "viewer"
    /\ HISTORY_VIEWER_ACTIVE' = FALSE
    /\ Set([Cur EXCEPT !.pc = "prompt"])
    /\ UNCHANGED <<AGENT_MODEL, CURRENT_PROVIDER, AGENT_MODE, history_blocks,
                   stop_requested, saved_state, turns, SELECTED_HISTORY_INDEX, keys, parserVars, menuVars>>
    /\ UNCHANGED apiVars

\* UP: SELECTED_HISTORY_INDEX = max(0, SELECTED_HISTORY_INDEX - 1)
ViewerUp ==
    /\ pc = "viewer"
    /\ keys < MaxKeys
    /\ keys' = keys + 1
    /\ SELECTED_HISTORY_INDEX' =
           IF SELECTED_HISTORY_INDEX - 1 > 0 THEN SELECTED_HISTORY_INDEX - 1 ELSE 0
    /\ UNCHANGED <<AGENT_MODEL, CURRENT_PROVIDER, AGENT_MODE, history_blocks,
                   stop_requested, saved_state, turns, HISTORY_VIEWER_ACTIVE, parserVars, menuVars>>
    /\ UNCHANGED turnVars
    /\ UNCHANGED apiVars

\* DOWN: SELECTED_HISTORY_INDEX = min(len(history_blocks) - 1, SELECTED_HISTORY_INDEX + 1)
ViewerDown ==
    /\ pc = "viewer"
    /\ keys < MaxKeys
    /\ keys' = keys + 1
    /\ SELECTED_HISTORY_INDEX' =
           IF Len(history_blocks) - 1 < SELECTED_HISTORY_INDEX + 1
           THEN Len(history_blocks) - 1 ELSE SELECTED_HISTORY_INDEX + 1
    /\ UNCHANGED <<AGENT_MODEL, CURRENT_PROVIDER, AGENT_MODE, history_blocks,
                   stop_requested, saved_state, turns, HISTORY_VIEWER_ACTIVE, parserVars, menuVars>>
    /\ UNCHANGED turnVars
    /\ UNCHANGED apiVars

\* DEL: the selected entry is deleted and the session saved; the selection
\* moves to the new last entry if it was past it, and the viewer closes when
\* the history is empty.
ViewerDelete ==
    /\ pc = "viewer"
    /\ keys < MaxKeys
    /\ keys' = keys + 1
    /\ IF 0 <= SELECTED_HISTORY_INDEX /\ SELECTED_HISTORY_INDEX < Len(history_blocks)
       THEN /\ history_blocks' = DeleteAt(history_blocks, SELECTED_HISTORY_INDEX)
            /\ saved_state' = SessionState(AGENT_MODEL, AGENT_MODE, CURRENT_PROVIDER,
                                           history_blocks')
            /\ SELECTED_HISTORY_INDEX' =
                   IF SELECTED_HISTORY_INDEX >= Len(history_blocks')
                      /\ Len(history_blocks') > 0
                   THEN Len(history_blocks') - 1
                   ELSE SELECTED_HISTORY_INDEX
            /\ HISTORY_VIEWER_ACTIVE' = (Len(history_blocks') # 0)
            /\ Set([Cur EXCEPT !.pc = IF Len(history_blocks') = 0 THEN "prompt" ELSE "viewer"])
       ELSE /\ UNCHANGED <<history_blocks, saved_state, SELECTED_HISTORY_INDEX,
                           HISTORY_VIEWER_ACTIVE>>
            /\ UNCHANGED turnVars
    /\ UNCHANGED <<AGENT_MODEL, CURRENT_PROVIDER, AGENT_MODE, stop_requested, turns, parserVars, menuVars>>
    /\ UNCHANGED apiVars

(***************************************************************************)
(* The providers viewer (show_providers_viewer), one action per key.       *)
(***************************************************************************)
Selected == ProviderNames[SELECTED_PROVIDER_INDEX + 1]

\* main: ctrl+w.
OpenProviders ==
    /\ pc = "prompt"
    /\ PROVIDERS_VIEWER_ACTIVE' = TRUE
    /\ SELECTED_PROVIDER_INDEX' = 0
    /\ Set([Cur EXCEPT !.pc = "providers"])
    /\ UNCHANGED <<AGENT_MODEL, CURRENT_PROVIDER, saved_state, keys, config>>
    /\ UNCHANGED <<globalVars, selectorVars, apiVars>>

\* UP: SELECTED_PROVIDER_INDEX = max(0, SELECTED_PROVIDER_INDEX - 1)
ProvidersUp ==
    /\ pc = "providers"
    /\ keys < MaxKeys
    /\ keys' = keys + 1
    /\ SELECTED_PROVIDER_INDEX' =
           IF SELECTED_PROVIDER_INDEX - 1 > 0 THEN SELECTED_PROVIDER_INDEX - 1 ELSE 0
    /\ UNCHANGED <<AGENT_MODEL, CURRENT_PROVIDER, saved_state, config,
                   PROVIDERS_VIEWER_ACTIVE>>
    /\ UNCHANGED <<globalVars, selectorVars, apiVars, turnVars>>

\* DOWN: SELECTED_PROVIDER_INDEX = min(len(provider_names) - 1, SELECTED_PROVIDER_INDEX + 1)
ProvidersDown ==
    /\ pc = "providers"
    /\ keys < MaxKeys
    /\ keys' = keys + 1
    /\ SELECTED_PROVIDER_INDEX' =
           IF Len(ProviderNames) - 1 < SELECTED_PROVIDER_INDEX + 1
           THEN Len(ProviderNames) - 1 ELSE SELECTED_PROVIDER_INDEX + 1
    /\ UNCHANGED <<AGENT_MODEL, CURRENT_PROVIDER, saved_state, config,
                   PROVIDERS_VIEWER_ACTIVE>>
    /\ UNCHANGED <<globalVars, selectorVars, apiVars, turnVars>>

\* ENTER: an enabled provider is disabled unless it is the only one enabled;
\* a disabled one is enabled, with the key typed or else its stored key, the
\* others are disabled and its models fetched (with a stored key only when
\* it has none); save_provider_config.  A failed fetch stores a list, which
\* the next load_provider_config migrates, dropping disabled_models.
ProvidersEnter(api_key, ok) ==
    /\ pc = "providers"
    /\ keys < MaxKeys
    /\ keys' = keys + 1
    /\ LET p == At(config, Selected)
           enabled_providers == SelectSeq(ProviderNames, LAMBDA n : At(config, n).enabled)
           others == [i \in 1..Len(config) |->
                         IF config[i].name = Selected THEN config[i]
                         ELSE [config[i] EXCEPT !.enabled = FALSE]]
           fetched == fetch_provider_models(Selected, ok)
           migrated == IF fetched = <<>> THEN <<>> ELSE p.disabled_models
       IN config' =
              IF p.enabled
              THEN IF enabled_providers = <<Selected>> THEN config
                   ELSE Put(config, [p EXCEPT !.enabled = FALSE])
              ELSE IF api_key # ""
              THEN Put(others, [p EXCEPT !.enabled = TRUE, !.api_key = api_key,
                                         !.models = fetched,
                                         !.disabled_models = migrated])
              ELSE IF p.api_key # ""
              THEN Put(others, [p EXCEPT !.enabled = TRUE,
                                         !.models = IF p.models = <<>> THEN fetched
                                                    ELSE p.models,
                                         !.disabled_models = IF p.models = <<>> THEN migrated
                                                             ELSE p.disabled_models])
              ELSE config
    /\ UNCHANGED <<AGENT_MODEL, CURRENT_PROVIDER, saved_state, PROVIDERS_VIEWER_ACTIVE,
                   SELECTED_PROVIDER_INDEX>>
    /\ UNCHANGED <<globalVars, selectorVars, apiVars, turnVars>>

\* SPACE: show_model_selector for an enabled provider with models, up to its
\* first key: the current model is replaced when its entry is disabled.
ProvidersSpace ==
    /\ pc = "providers"
    /\ LET p == At(config, Selected)
           models == Names(p.models)
           disabled == SelectSeq(models, LAMBDA m : ~At(p.models, m).enabled)
           enabled_models == SelectSeq(models, LAMBDA m : ~InSeq(m, disabled))
       IN IF p.enabled /\ p.models # <<>>
          THEN /\ MODEL_SELECTOR_ACTIVE' = TRUE
               /\ SELECTED_MODEL_INDEX' = 0
               /\ provider_name' = Selected
               /\ disabled_models' = disabled
               /\ AGENT_MODEL' =
                      IF CURRENT_PROVIDER = Selected /\ InSeq(AGENT_MODEL, disabled)
                         /\ enabled_models # <<>>
                      THEN enabled_models[1] ELSE AGENT_MODEL
               /\ Set([Cur EXCEPT !.pc = "models"])
          ELSE /\ UNCHANGED <<selectorVars, AGENT_MODEL>>
               /\ UNCHANGED turnVars
    /\ UNCHANGED <<CURRENT_PROVIDER, saved_state, keys, config, PROVIDERS_VIEWER_ACTIVE,
                   SELECTED_PROVIDER_INDEX>>
    /\ UNCHANGED <<globalVars, apiVars>>

\* BACKSPACE: with an API key in config.json the viewer closes, provider and
\* model set from the first enabled provider; without one it stays open.
ProvidersBack ==
    /\ pc = "providers"
    /\ IF HasApiKey(config)
       THEN /\ IF EnabledProviders(config) # <<>>
               THEN /\ CURRENT_PROVIDER' = EnabledProviders(config)[1]
                    /\ AGENT_MODEL' = FirstModel(At(config, EnabledProviders(config)[1]))
               ELSE UNCHANGED <<CURRENT_PROVIDER, AGENT_MODEL>>
            /\ PROVIDERS_VIEWER_ACTIVE' = FALSE
            /\ Set([Cur EXCEPT !.pc = "prompt"])
       ELSE /\ UNCHANGED <<CURRENT_PROVIDER, AGENT_MODEL, PROVIDERS_VIEWER_ACTIVE>>
            /\ UNCHANGED turnVars
    /\ UNCHANGED <<saved_state, keys, config, SELECTED_PROVIDER_INDEX>>
    /\ UNCHANGED <<globalVars, selectorVars, apiVars>>

(***************************************************************************)
(* The model selector (show_model_selector), one action per key.           *)
(***************************************************************************)
\* models = list(models_config.keys())
SelectorModels == Names(At(config, provider_name).models)
SelectedModel == SelectorModels[SELECTED_MODEL_INDEX + 1]

\* int(user_input) on digits; <<>> when it raises ValueError.
Digit(c) ==
    CASE c = "0" -> 0 [] c = "1" -> 1 [] c = "7" -> 7 [] OTHER -> -1
RECURSIVE ToInt(_, _)
ToInt(chars, acc) ==
    IF chars = <<>> THEN <<acc>>
    ELSE IF Digit(Head(chars)) < 0 THEN <<>>
    ELSE ToInt(Tail(chars), 10 * acc + Digit(Head(chars)))

ModelsUp ==
    /\ pc = "models"
    /\ keys < MaxKeys
    /\ keys' = keys + 1
    /\ SELECTED_MODEL_INDEX' =
           IF SELECTED_MODEL_INDEX - 1 > 0 THEN SELECTED_MODEL_INDEX - 1 ELSE 0
    /\ UNCHANGED <<AGENT_MODEL, CURRENT_PROVIDER, saved_state, config,
                   PROVIDERS_VIEWER_ACTIVE, SELECTED_PROVIDER_INDEX,
                   MODEL_SELECTOR_ACTIVE, provider_name, disabled_models>>
    /\ UNCHANGED <<globalVars, apiVars, turnVars>>

ModelsDown ==
    /\ pc = "models"
    /\ keys < MaxKeys
    /\ keys' = keys + 1
    /\ SELECTED_MODEL_INDEX' =
           IF Len(SelectorModels) - 1 < SELECTED_MODEL_INDEX + 1
           THEN Len(SelectorModels) - 1 ELSE SELECTED_MODEL_INDEX + 1
    /\ UNCHANGED <<AGENT_MODEL, CURRENT_PROVIDER, saved_state, config,
                   PROVIDERS_VIEWER_ACTIVE, SELECTED_PROVIDER_INDEX,
                   MODEL_SELECTOR_ACTIVE, provider_name, disabled_models>>
    /\ UNCHANGED <<globalVars, apiVars, turnVars>>

\* SPACE: the selected model enters or leaves disabled_models; the last
\* enabled one stays.
ModelsSpace ==
    /\ pc = "models"
    /\ keys < MaxKeys
    /\ keys' = keys + 1
    /\ LET enabled_count ==
               Len(SelectSeq(SelectorModels, LAMBDA m : ~InSeq(m, disabled_models)))
       IN disabled_models' =
              IF ~InSeq(SelectedModel, disabled_models) /\ enabled_count <= 1
              THEN disabled_models
              ELSE IF InSeq(SelectedModel, disabled_models)
              THEN SelectSeq(disabled_models, LAMBDA m : m # SelectedModel)
              ELSE Append(disabled_models, SelectedModel)
    /\ UNCHANGED <<AGENT_MODEL, CURRENT_PROVIDER, saved_state, config,
                   PROVIDERS_VIEWER_ACTIVE, SELECTED_PROVIDER_INDEX,
                   MODEL_SELECTOR_ACTIVE, SELECTED_MODEL_INDEX, provider_name>>
    /\ UNCHANGED <<globalVars, apiVars, turnVars>>

\* ENTER: max_tokens of the selected model is set to the number typed, to
\* the known default when nothing is typed; save_provider_config.
ModelsEnter(input) ==
    /\ pc = "models"
    /\ keys < MaxKeys
    /\ keys' = keys + 1
    /\ LET user_input == Strip(input)
           p == At(config, provider_name)
           entry == At(p.models, SelectedModel)
           new_max_tokens ==
               IF user_input = <<>>
               THEN <<get_default_model_config(provider_name, SelectedModel).max_tokens>>
               ELSE ToInt(user_input, 0)
       IN config' =
              IF new_max_tokens = <<>> THEN config
              ELSE Put(config, [p EXCEPT !.models =
                       Put(p.models, [entry EXCEPT !.has_max = TRUE,
                                                   !.max_tokens = new_max_tokens[1]])])
    /\ UNCHANGED <<AGENT_MODEL, CURRENT_PROVIDER, saved_state,
                   PROVIDERS_VIEWER_ACTIVE, SELECTED_PROVIDER_INDEX>>
    /\ UNCHANGED <<globalVars, selectorVars, apiVars, turnVars>>

\* BACKSPACE: the model becomes the selected one when that is enabled and of
\* the current provider, else the first enabled one; disabled_models goes
\* into the provider's entry; save_provider_config.
ModelsBack ==
    /\ pc = "models"
    /\ LET enabled_models == SelectSeq(SelectorModels, LAMBDA m : ~InSeq(m, disabled_models))
       IN AGENT_MODEL' =
              IF 0 <= SELECTED_MODEL_INDEX /\ SELECTED_MODEL_INDEX < Len(SelectorModels)
              THEN IF ~InSeq(SelectedModel, disabled_models)
                      /\ CURRENT_PROVIDER = provider_name
                   THEN SelectedModel
                   ELSE IF enabled_models # <<>> THEN enabled_models[1] ELSE AGENT_MODEL
              ELSE AGENT_MODEL
    /\ config' = Put(config, [At(config, provider_name) EXCEPT
                                  !.disabled_models = disabled_models])
    /\ MODEL_SELECTOR_ACTIVE' = FALSE
    /\ Set([Cur EXCEPT !.pc = "providers"])
    /\ UNCHANGED <<CURRENT_PROVIDER, saved_state, keys, PROVIDERS_VIEWER_ACTIVE,
                   SELECTED_PROVIDER_INDEX, SELECTED_MODEL_INDEX, provider_name,
                   disabled_models>>
    /\ UNCHANGED <<globalVars, apiVars>>

(***************************************************************************)
(* main: ctrl+t cycles through the enabled models of the enabled providers. *)
(***************************************************************************)
\* With no such model the provider becomes "NoProvider"; with the current
\* model not among them the unpacking of all_models[0], a string, raises
\* ValueError, which main logs; else the next one is taken and saved.
CycleModel ==
    /\ pc = "prompt"
    /\ keys < MaxKeys
    /\ keys' = keys + 1
    /\ LET all_models == AllModels(config)
           found == {i \in 1..Len(all_models) :
                        all_models[i] = <<CURRENT_PROVIDER, AGENT_MODEL>>}
           current == CHOOSE i \in found : \A k \in found : i <= k
           next == all_models[(current % Len(all_models)) + 1]
       IN IF all_models = <<>>
          THEN /\ CURRENT_PROVIDER' = "NoProvider"
               /\ AGENT_MODEL' = "no-models-available"
               /\ saved_state' = SessionState(AGENT_MODEL', AGENT_MODE, CURRENT_PROVIDER',
                                              history_blocks)
          ELSE IF found = {}
          THEN UNCHANGED <<CURRENT_PROVIDER, AGENT_MODEL, saved_state>>
          ELSE /\ CURRENT_PROVIDER' = next[1]
               /\ AGENT_MODEL' = next[2]
               /\ saved_state' = SessionState(AGENT_MODEL', AGENT_MODE, CURRENT_PROVIDER',
                                              history_blocks)
    /\ UNCHANGED <<config, PROVIDERS_VIEWER_ACTIVE, SELECTED_PROVIDER_INDEX>>
    /\ UNCHANGED <<globalVars, selectorVars, apiVars, turnVars>>

Next ==
    \/ \E p \in Prompts : EnterPrompt(p)
    \/ ToggleMode
    \/ \E reply \in MainReplies : MainReply(reply)
    \/ \E a \in Answers : ConfirmAnswer(a)
    \/ \E o \in Outcomes : CommandDone(o)
    \/ \E reply \in IssueReplies : IssueReply(reply)
    \/ \E a \in Answers : FixConfirmAnswer(a)
    \/ \E o \in FixOutcomes : FixCommandDone(o)
    \/ \E reply \in ProseReplies : ExplainReply(reply)
    \/ \E reply \in ProseReplies : SummaryReply(reply)

Spec == Init /\ [][Next]_vars

(***************************************************************************)
(* The stop branches.  cligent.py only ever assigns False to stop_requested *)
(* (at import and at the start of process_user_prompt), so under Spec the   *)
(* flag stays False.  Here the flag, a module global that run_command, the  *)
(* pipeline and the resolver read, is set from outside while a command is  *)
(* in flight.                                                              *)
(***************************************************************************)
RequestStop ==
    /\ pc \in {"run", "run_fix"}
    /\ ~stop_requested
    /\ stop_requested' = TRUE
    /\ UNCHANGED <<AGENT_MODEL, CURRENT_PROVIDER, AGENT_MODE, history_blocks,
                   saved_state, turns, viewerVars, parserVars, menuVars>>
    /\ UNCHANGED turnVars
    /\ UNCHANGED apiVars

StopNext == Next \/ RequestStop

StopSpec == Init /\ [][StopNext]_vars

(***************************************************************************)
(* SIGINT.  main installs signal_handler, which restores the terminal and  *)
(* calls sys.exit(0): the flag is left as it is and the main thread ends   *)
(* wherever it is, its locals gone.                                        *)
(***************************************************************************)
\* signal_handler setting the stop flag and returning to the interrupted call.
signal_handler_SetsFlag(r) == [flag |-> TRUE, turn |-> r]

signal_handler(r) == [flag |-> stop_requested, turn |-> [Idle EXCEPT !.pc = "exited"]]

Interrupt ==
    /\ pc # "exited"
    /\ stop_requested' = signal_handler(Cur).flag
    /\ Set(signal_handler(Cur).turn)
    /\ UNCHANGED <<AGENT_MODEL, CURRENT_PROVIDER, AGENT_MODE, history_blocks,
                   saved_state, turns, viewerVars, parserVars, menuVars>>
    /\ UNCHANGED apiVars

SignalNext == Next \/ Interrupt

SignalSpec == Init /\ [][SignalNext]_vars

(***************************************************************************)
(* A session that starts from a stored history: turns and the viewer.      *)
(***************************************************************************)
HistoryInit == \E n \in HistoryLengths : load_state(StoredBlocks(n))

HistoryNext ==
    \/ \E p \in Prompts : EnterPrompt(p)
    \/ \E reply \in HistoryReplies : MainReply(reply)
    \/ \E a \in Answers : ConfirmAnswer(a)
    \/ \E o \in Outcomes : CommandDone(o)
    \/ \E reply \in HistoryIssueReplies : IssueReply(reply)
    \/ \E a \in Answers : FixConfirmAnswer(a)
    \/ \E o \in Outcomes : FixCommandDone(o)
    \/ \E reply \in ProseReplies : ExplainReply(reply)
    \/ \E reply \in ProseReplies : SummaryReply(reply)
    \/ OpenViewer
    \/ ViewerBack
    \/ ViewerUp
    \/ ViewerDown
    \/ ViewerDelete

HistorySpec == HistoryInit /\ [][HistoryNext]_vars

(***************************************************************************)
(* The plan parser alone, on texts of several segments.                    *)
(***************************************************************************)
ParserInit ==
    /\ load_state(<<>>)
    /\ pc = "prompt"

\* clean_response = extract_json_from_markdown(response)
Parse(segs) ==
    /\ extracted = NoMatch
    /\ text' = segs
    /\ extracted' = extract_json_from_markdown(Flatten(segs))
    /\ UNCHANGED <<AGENT_MODEL, CURRENT_PROVIDER, AGENT_MODE, history_blocks,
                   stop_requested, saved_state, turns, viewerVars, menuVars>>
    /\ UNCHANGED turnVars
    /\ UNCHANGED apiVars

ParserNext == \E segs \in FencedTexts : Parse(segs)

ParserSpec == ParserInit /\ [][ParserNext]_vars

(***************************************************************************)
(* A session with its menus: the config.json it starts from, the providers *)
(* viewer, the model selector, model cycling, and turns without commands.  *)
(***************************************************************************)
ConfigInit == \E cfg \in ConfigFiles : main_startup(<<>>, cfg)

ConfigNext ==
    \/ \E p \in Prompts : EnterPrompt(p)
    \/ \E reply \in ConfigReplies : MainReply(reply)
    \/ \E reply \in ProseReplies : SummaryReply(reply)
    \/ CycleModel
    \/ OpenProviders
    \/ ProvidersUp
    \/ ProvidersDown
    \/ \E api_key \in {"", "k"}, ok \in BOOLEAN : ProvidersEnter(api_key, ok)
    \/ ProvidersSpace
    \/ ProvidersBack
    \/ ModelsUp
    \/ ModelsDown
    \/ ModelsSpace
    \/ \E input \in TokenInputs : ModelsEnter(input)
    \/ ModelsBack

ConfigSpec == ConfigInit /\ [][ConfigNext]_vars

(***************************************************************************)
(* One turn with one resolution chain.                                     *)
(***************************************************************************)
ChainNext ==
    \/ \E p \in Prompts : EnterPrompt(p)
    \/ \E reply \in ChainReplies : MainReply(reply)
    \/ \E o \in ChainOutcomes : CommandDone(o)
    \/ \E reply \in ChainIssueReplies : IssueReply(reply)
    \/ \E o \in Outcomes : FixCommandDone(o)
    \/ \E reply \in ProseReplies : SummaryReply(reply)

ChainSpec == Init /\ [][ChainNext]_vars

(***************************************************************************)
(* One turn whose plan and repair plans are the same replies.              *)
(***************************************************************************)
RepairNext ==
    \/ \E p \in Prompts : EnterPrompt(p)
    \/ \E reply \in RepairReplies : MainReply(reply)
    \/ \E o \in ChainOutcomes : CommandDone(o)
    \/ \E reply \in RepairReplies : IssueReply(reply)
    \/ \E o \in RepairOutcomes : FixCommandDone(o)
    \/ \E reply \in ProseReplies : SummaryReply(reply)

RepairSpec == Init /\ [][RepairNext]_vars

(***************************************************************************)
(* Properties.                                                             *)
(***************************************************************************)
ChainPcs == {"api_issue", "confirm_fix", "run_fix"}
PipelinePcs == {"confirm", "run", "api_explain"}
NonExecuting == {"direct", "answer", "knowledge"}

\* The last blocking call that returned was the confirmation prompt, for a
\* command of the set C, with the value v.
Asked(C, v) == last_ev.op = "ask" /\ last_ev.cmd \in C /\ last_ev.val = v
\* ... was run_command, for a command of the set C, with outcome v.
Ran(C, v) == last_ev.op = "run" /\ last_ev.cmd \in C /\ last_ev.val = v
\* ... was call_api for the request q, with a reply of a class in V.
Replied(q, V) == last_ev.op = "api" /\ last_ev.cmd = q /\ last_ev.val \in V

\* C1: whenever the command of a step with confirm = true is in flight in
\* run_command, in the pipeline or in the resolver, the blocking call that
\* returned just before was ask_user_confirmation for that very command and
\* it returned True.
C1_ConfirmBeforeRun ==
    /\ (pc = "run" /\ data.run[idx].confirm)
          => last_ev = Ev("ask", data.run[idx].command, "True")
    /\ (pc = "run_fix" /\ issue_data.run[fix_idx].confirm)
          => last_ev = Ev("ask", issue_data.run[fix_idx].command, "True")

C1_Witness ==
    /\ pc = "run_fix"
    /\ issue_data.run[fix_idx].confirm
    /\ Len(stack) = 2
    /\ data.run[idx].confirm
    /\ runs[idx] = 1

\* C2: when the user rejects the confirmation of a step in
\* handle_run_commands, the pipeline is at the next step of the run list (at
\* its prompt or its command) or past the end of the list, the rejected step
\* has not been run, and handle_run_commands has not returned False; and a
\* step the loop has left is never run afterwards.
C2_RejectSkipsStep ==
    [][ /\ (pc = "confirm" /\ Asked(Commands, "False")')
            => /\ idx' = idx + 1
               /\ last_ev'.cmd = data.run[idx].command
               /\ runs'[idx] = 0
               /\ all_results' = all_results
               /\ hrc_ret' # "False"
               /\ IF idx' <= Len(data.run)
                  THEN pc' \in {"confirm", "run"}
                  ELSE /\ pc' \in {"api_explain", "api_summary"}
                       /\ pc' = "api_summary" => hrc_ret' = "True"
        /\ (pc \in PipelinePcs \cup ChainPcs /\ pc' # "prompt")
            => \A i \in 1..Len(runs) : i < idx => runs'[i] = runs[i]
      ]_vars

C2_Witness ==
    /\ Asked(Commands, "False")
    /\ pc = "api_summary"
    /\ hrc_ret = "True"
    /\ Len(data.run) = 2
    /\ runs = <<0, 0>>

\* C3: in a turn whose plan has type direct, answer or knowledge,
\* handle_run_commands is not called and run_command is not called, whatever
\* run list the plan carries.
C3_NoExecution ==
    data.type \in NonExecuting
        => /\ hrc_calls = 0
           /\ pc \notin PipelinePcs \cup ChainPcs
           /\ runs = <<>>
           /\ chains = 0
           /\ fix_runs = 0
           /\ last_ev.op \notin {"ask", "run"}

C3_Witness ==
    /\ data.type = "knowledge"
    /\ Len(data.run) = 2
    /\ pc = "prompt"
    /\ last_ev.op = "api"

\* C4: the calls of handle_error_recursion of one chain have the depths
\* 0, 1, 2, ... in call order; a call at a depth below 10 sends one repair
\* request, and after 10 failing fix commands the call at depth 10 sends
\* none, logs the give-up and returns False, which handle_run_commands
\* receives and returns.
C4_DepthBounded ==
    /\ \A i \in 1..Len(her_calls) : her_calls[i] = i - 1
    /\ \A i \in 1..Len(stack) : stack[i].depth = i - 1
    /\ Len(her_calls) <= MaxDepth + 1
    /\ chain_reqs <= MaxDepth
    /\ fix_runs <= MaxDepth
    /\ (Ran(FixCommands, "err") /\ fix_runs < MaxDepth)
          => /\ pc = "api_issue"
             /\ ~gave_up
             /\ Len(stack) = fix_runs + 1
             /\ chain_reqs = fix_runs + 1
    /\ (Ran(FixCommands, "err") /\ fix_runs = MaxDepth)
          => /\ gave_up
             /\ her_calls[Len(her_calls)] = MaxDepth
             /\ chain_reqs = MaxDepth
             /\ stack = <<>>
             /\ her_ret = "False"
             /\ hrc_ret = "False"
             /\ pc = "api_summary"
    /\ gave_up
          => /\ her_ret = "False"
             /\ hrc_ret = "False"
             /\ pc = "api_summary" => Len(her_calls) = MaxDepth + 1

C4_Witness ==
    /\ gave_up
    /\ pc = "api_summary"
    /\ fix_runs = MaxDepth
    /\ chain_reqs = MaxDepth
    /\ hrc_ret = "False"

\* C5: when a step of a plan of type task or issue has produced stderr, the
\* resolver has been called for it at depth 0 with the failing command, its
\* stderr and the plan, and waits for its repair request.
C5_TaskOrIssueRepaired ==
    (Ran(Commands, "err") /\ data.type \in {"task", "issue"})
        => /\ pc = "api_issue"
           /\ stack = << [failed_cmd |-> data.run[idx].command,
                          stderr |-> stderr, depth |-> 0] >>
           /\ her_calls = <<0>>

\* C6: when the resolver has returned False for a step, handle_run_commands
\* has returned False at once: no later step was run or prompted for, the
\* failing step was not recorded, and no explanation was requested.
C6_ResolverFailureAborts ==
    her_ret = "False"
        => /\ hrc_ret = "False"
           /\ n_api.explain = 0
           /\ pc \in {"api_summary", "prompt"}
           /\ pc = "api_summary"
                => /\ Len(all_results) < idx
                   /\ runs[idx] = 1
                   /\ \A i \in 1..Len(runs) : i > idx => runs[i] = 0
                   /\ ~Asked(Commands, "True") /\ ~Asked(Commands, "False")

C6_Witness ==
    /\ her_ret = "False"
    /\ pc = "api_summary"
    /\ idx = 1
    /\ Len(data.run) = 2
    /\ Replied("issue", {"none"})

\* C7: when a fix command has ended with empty stderr at a depth below 10,
\* the depth-0 call has returned True to the pipeline, which has recorded the
\* repaired step and gone on with the rest of the plan; and
\* handle_run_commands returns False only after a chain that returned False.
C7_FixSuccessPropagates ==
    /\ Ran(FixCommands, "ok")
          => /\ her_ret = "True"
             /\ stack = <<>>
             /\ Len(her_calls) <= MaxDepth
             /\ all_results # <<>>
             /\ all_results[Len(all_results)] =
                    [command |-> data.run[idx - 1].command,
                     stdout |-> stdout, stderr |-> stderr]
             /\ runs[idx - 1] = 1
             /\ hrc_ret # "False"
             /\ IF idx <= Len(data.run)
                THEN pc \in {"confirm", "run"}
                ELSE pc = "api_summary" /\ hrc_ret = "True"
    /\ hrc_ret = "False" => her_ret = "False"
    /\ (pc = "api_summary" /\ hrc_calls = 1 /\ her_ret # "False") => hrc_ret = "True"

C7_Witness ==
    /\ Ran(FixCommands, "ok")
    /\ her_calls = <<0, 1>>
    /\ pc = "api_summary"
    /\ hrc_ret = "True"
    /\ chains = 1

\* C8: a chain that a fix command with empty stderr has ended has run one
\* fix command and sent one repair request per call and nothing since: the
\* resolver waits in no call, and the counts of the chain stay as they were
\* when the fix succeeded.
C8_NothingAfterSuccess ==
    [][ /\ (pc = "run_fix" /\ Ran(FixCommands, "ok")')
            => /\ fix_runs' = fix_runs
               /\ chain_reqs' = chain_reqs
               /\ her_calls' = her_calls
               /\ stack' = <<>>
               /\ pc' \notin ChainPcs
        /\ (her_ret = "True" /\ stack = <<>> /\ stack' = <<>> /\ pc' # "prompt")
            => /\ fix_runs' = fix_runs
               /\ chain_reqs' = chain_reqs
               /\ her_calls' = her_calls
      ]_vars

C8_Witness ==
    /\ her_ret = "True"
    /\ her_calls = <<0, 1, 2>>
    /\ fix_runs = 3
    /\ chain_reqs = 3
    /\ pc = "run"
    /\ idx = 2

\* C9: when the reply to a repair request is no response or no bare JSON,
\* the resolver has returned False: the call ran no command, sent no second
\* request and made no deeper call, and handle_run_commands returned False.
Undecodable == {"none", "garbage", "fenced"}

C9_BadRepairReplyFails ==
    Replied("issue", Undecodable)
        => /\ her_ret = "False"
           /\ hrc_ret = "False"
           /\ ~raised
           /\ pc = "api_summary"
           /\ stack = <<>>
           /\ chain_reqs = Len(her_calls)
           /\ fix_runs = Len(her_calls) - 1
           /\ her_calls[Len(her_calls)] = Len(her_calls) - 1

C9_Witness ==
    /\ Replied("issue", {"garbage"})
    /\ pc = "api_summary"
    /\ her_calls = <<0, 1>>
    /\ fix_runs = 1

C11_HistoryAtMostFifty ==
    /\ Len(history_blocks) <= MaxHistory
    /\ Len(saved_state.history_blocks) <= MaxHistory

\* A turn has appended to a history that was at the cap.
C11_Witness ==
    /\ Len(history_blocks) = MaxHistory
    /\ appended = 1
    /\ history_blocks[1].timestamp = 2 - MaxHistory
    /\ history_blocks[MaxHistory].timestamp = turns

\* C12: eviction is first in, first out.  Appending to a history of exactly
\* 50 entries leaves 50: the former entries 2..50 in their order, then the
\* new block, and the former oldest entry nowhere; appending to a shorter
\* history keeps every entry and puts the new block last.
C12_EvictionIsFifo ==
    [][ (appended' = appended + 1)
            => LET n == Len(history_blocks)
                   new == history_blocks'[Len(history_blocks')]
               IN /\ new.timestamp = turns
                  /\ new.user_prompt = user_prompt
                  /\ \A i \in 1..n : history_blocks[i] # new
                  /\ IF n = MaxHistory
                     THEN /\ Len(history_blocks') = MaxHistory
                          /\ \A i \in 1..(MaxHistory - 1) :
                                 history_blocks'[i] = history_blocks[i + 1]
                          /\ \A i \in 1..MaxHistory :
                                 history_blocks'[i] # history_blocks[1]
                     ELSE /\ Len(history_blocks') = n + 1
                          /\ \A i \in 1..n : history_blocks'[i] = history_blocks[i]
      ]_vars

\* The block of a turn whose summarization failed has pushed out the oldest
\* stored entry.
C12_Witness ==
    /\ Len(history_blocks) = MaxHistory
    /\ history_blocks[MaxHistory].summary = "No summary available"
    /\ history_blocks[MaxHistory].timestamp = 1
    /\ \A i \in 1..MaxHistory : history_blocks[i].timestamp # 1 - MaxHistory
    /\ history_blocks[1].timestamp = 2 - MaxHistory

\* C13: a turn whose plan has type direct, answer or knowledge has appended
\* exactly one history block when it ends.
C13_NonExecutingTurnAppendsOne ==
    (pc = "prompt" /\ data.type \in NonExecuting) => appended = 1

\* C14: in a turn whose plan has type query or task, no history block is
\* appended while the pipeline runs; once handle_run_commands has returned,
\* True or False, the turn sends one summarization request and ends with
\* exactly one block appended.  Only a turn that an exception ends has no
\* block, and then handle_run_commands has not returned.
C14_ExecutedTurnAppendsOne ==
    data.type \in {"query", "task"}
        => /\ pc \in PipelinePcs \cup ChainPcs
                => appended = 0 /\ n_api.summary = 0 /\ hrc_ret = "none"
           /\ pc = "api_summary"
                => /\ appended = 0
                   /\ n_api.summary = 1
                   /\ data.has_run => hrc_ret \in {"True", "False"}
           /\ (pc = "prompt" /\ ~raised)
                => /\ appended = 1
                   /\ n_api.summary = 1
                   /\ last_ev.op = "api" /\ last_ev.cmd = "summary"
           /\ (pc = "prompt" /\ hrc_ret \in {"True", "False"}) => appended = 1
           /\ raised => appended = 0 /\ hrc_ret = "none"

\* A task whose resolution gave up: the pipeline returned False and the turn
\* ended with its block.
C14_Witness ==
    /\ data.type = "task"
    /\ pc = "prompt"
    /\ hrc_ret = "False"
    /\ gave_up
    /\ appended = 1
    /\ Len(history_blocks) = 1

\* C15: when the main call_api of a turn returns no response, the turn ends
\* there without an exception: process_user_prompt is back at the prompt, no
\* pipeline was started and no command run, no other backend call was made,
\* and history_blocks and the saved session are as they were.
C15_NoResponseAbortsTurn ==
    [][ (pc = "api_main" /\ Replied("main", {"none"})')
            => /\ pc' = "prompt"
               /\ ~raised'
               /\ n_api' = [main |-> 1, explain |-> 0, summary |-> 0]
               /\ hrc_calls' = 0
               /\ runs' = <<>>
               /\ chains' = 0
               /\ appended' = 0
               /\ history_blocks' = history_blocks
               /\ saved_state' = saved_state
      ]_vars

C15_Witness ==
    /\ Replied("main", {"none"})
    /\ pc = "prompt"
    /\ turns = 1
    /\ Len(history_blocks) = MaxHistory - 1

\* C16: when the main reply of a turn is no JSON, or JSON that is no object,
\* the turn ends there: no plan was taken from it, no pipeline was started
\* and no command run, and the backend was called once in the turn (the plan
\* request is not repeated, and nothing else is requested).
C16_UndecodablePlanAbortsTurn ==
    Replied("main", {"garbage", "nonobject"})
        => /\ pc = "prompt"
           /\ data = NoPlan
           /\ n_api = [main |-> 1, explain |-> 0, summary |-> 0]
           /\ hrc_calls = 0
           /\ runs = <<>>
           /\ chains = 0
           /\ appended = 0
           /\ raised <=> Replied("main", {"nonobject"})

C16_Witness ==
    /\ Replied("main", {"garbage"})
    /\ pc = "prompt"
    /\ ~raised
    /\ n_api.main = 1

C18_ExplainedWhateverType ==
    (pc = "api_summary" /\ hrc_ret = "True" /\ data.type \in {"query", "task"}
        /\ Len(data.run) > 0 /\ Len(all_results) = Len(data.run))
        => n_api.explain = 1

\* C18 as the code has it: the explanation request is sent for a plan of type
\* query only.  A pipeline that has completed the steps of a query plan, at
\* least one of them executed, has sent exactly one explanation request,
\* after the last step, whatever the number of steps; the pipeline of a plan
\* of any other type, task included, sends none.
C18_QueryExplainedOnce ==
    /\ n_api.explain <= 1
    /\ pc = "api_explain"
          => /\ data.type = "query"
             /\ idx = Len(data.run) + 1
             /\ all_results # <<>>
             /\ n_api.explain = 1
             /\ hrc_ret = "none"
    /\ (pc = "api_summary" /\ hrc_ret = "True")
          => n_api.explain =
                 IF data.type = "query" /\ all_results # <<>> THEN 1 ELSE 0
    /\ data.type # "query" => n_api.explain = 0

C18_Witness ==
    /\ pc = "api_summary"
    /\ data.type = "query"
    /\ Len(all_results) = 2
    /\ n_api.explain = 1
    /\ Replied("explain", {"garbage"})

\* C19: handle_run_commands returns False only after the resolver has
\* returned False for a step (or with the stop flag set); every other
\* pipeline that ends returns True: with steps rejected, with steps of a
\* query plan that wrote to stderr, and with a failed explanation request.
C19_FalseOnlyOnFailedResolution ==
    /\ hrc_ret = "False" => (her_ret = "False" \/ stop_requested)
    /\ (pc = "api_summary" /\ hrc_calls = 1 /\ her_ret # "False" /\ ~stop_requested)
          => hrc_ret = "True"
    /\ (Replied("explain", {"none", "garbage"}) /\ pc = "api_summary")
          => hrc_ret = "True"
    /\ (pc = "api_summary" /\ data.type = "query" /\ hrc_calls = 1) => hrc_ret = "True"
    /\ (pc = "api_summary" /\ Asked(Commands, "False")) => hrc_ret = "True"

\* A query plan: one step rejected, one that wrote to stderr, and an
\* explanation request that failed.
C19_Witness ==
    /\ pc = "api_summary"
    /\ data.type = "query"
    /\ hrc_ret = "True"
    /\ Replied("explain", {"none"})
    /\ Len(data.run) = 2
    /\ Len(all_results) = 1
    /\ Truthy(all_results[1].stderr)

C22_FailedFixAppendsOneAttempt ==
    [][(pc = "run_fix" /\ last_ev'.op = "run" /\ last_ev'.val = "err")
        => LET cmd == issue_data.run[fix_idx].command
               d == stack[Len(stack)].depth
           IN /\ last_ev'.cmd = cmd
              /\ her_calls' = Append(her_calls, d + 1)
              /\ d + 1 < MaxDepth
                    => /\ pc' = "api_issue"
                       /\ issue_history' =
                              Append(issue_history, [command |-> cmd, stderr |-> <<"e">>])
                       /\ stack' = Append(stack, [failed_cmd |-> cmd, stderr |-> <<"e">>,
                                                  depth |-> d + 1])
                       /\ Len(issue_history') = d + 1
              /\ d + 1 = MaxDepth => gave_up']_vars

\* The third failing fix of a chain, after attempts with different commands.
C22_Witness ==
    /\ pc = "api_issue"
    /\ Ran({"f2"}, "err")
    /\ Len(stack) = 4
    /\ stack[1].failed_cmd = "c1"
    /\ stack[1].stderr = <<"x">>
    /\ stack[4].failed_cmd = "f2"
    /\ issue_history = << [command |-> "f2", stderr |-> <<"e">>],
                          [command |-> "f1", stderr |-> <<"e">>],
                          [command |-> "f2", stderr |-> <<"e">>] >>

\* C30: whenever a repair request is composed, at depth d of a chain that
\* the pipeline started, the attempt history holds exactly d entries and d is
\* at most 9, so the window of the last 20 attempts lists every attempt of
\* the chain, in order.
C30_WindowHoldsAllAttempts ==
    pc = "api_issue"
        => /\ stack # <<>>
           /\ stack[1].depth = 0
           /\ Len(issue_history) = stack[Len(stack)].depth
           /\ stack[Len(stack)].depth <= MaxDepth - 1
           /\ MaxDepth - 1 < AttemptWindow
           /\ attempts_text = issue_history
           /\ \A i \in 1..Len(issue_history) :
                  attempts_text[i] = [command |-> stack[i + 1].failed_cmd,
                                      stderr |-> stack[i + 1].stderr]

\* The request of the deepest call, over nine attempts that differ.
C30_Witness ==
    /\ pc = "api_issue"
    /\ Len(issue_history) = MaxDepth - 1
    /\ Len(attempts_text) = MaxDepth - 1
    /\ attempts_text[1].command = "f1"
    /\ attempts_text[2].command = "f2"
    /\ attempts_text[MaxDepth - 1].command = "f2"

\* The blocking calls a turn can still make, at most, before it is back at
\* the prompt: 1 for the summary, 2 with the explanation before it, and for
\* each step of the run list not yet finished the confirmation, the command
\* and a chain of 10 levels of request, confirmation and fix command.
StepRank == 3 * MaxDepth + 2
TurnRank ==
    LET after == 2 + (Len(data.run) - idx) * StepRank
        level == 3 * (MaxDepth - stack[Len(stack)].depth)
    IN CASE pc = "prompt" -> 0
         [] pc = "api_summary" -> 1
         [] pc = "api_explain" -> 2
         [] pc = "confirm" -> after + StepRank
         [] pc = "run" -> after + StepRank - 1
         [] pc = "api_issue" -> after + level
         [] pc = "confirm_fix" -> after + level - 1
         [] pc = "run_fix" -> after + level - 2
         [] OTHER -> 3 + (Len(data.run) + 1) * StepRank

\* C26: every turn terminates when each of its blocking calls returns: once
\* the plan has arrived, every backend reply, confirmation answer and command
\* outcome strictly lowers the number of blocking calls the turn can still
\* make, which is 0 at the prompt; and one resolution chain sends at most 10
\* repair requests and runs at most 10 fix commands.
C26_TurnTerminates ==
    /\ [](chain_reqs <= MaxDepth /\ fix_runs <= MaxDepth /\ TurnRank >= 0)
    /\ [][(pc \notin {"prompt", "api_main"}) => TurnRank' < TurnRank]_vars
    /\ [][pc = "api_main" => pc' # "api_main"]_vars

\* A turn back at the prompt after a chain that used all 10 requests and all
\* 10 fix commands.
C26_Witness ==
    /\ pc = "prompt"
    /\ turns = 1
    /\ gave_up
    /\ appended = 1
    /\ hrc_ret = "False"

\* C27 as claimed: the commands of the run list of a plan whose type is none
\* of direct, query, task, answer, knowledge, issue are not executed.
C27_UnknownTypeRunsNothing ==
    data.type = "other"
        => /\ hrc_calls = 0
           /\ pc \notin {"confirm", "run"}
           /\ \A i \in 1..Len(runs) : runs[i] = 0

\* C27 as the code has it: the fallback branch sets the color WHITE and the
\* turn goes on as for an executing plan: the pipeline runs the steps of the
\* run list behind the confirmation gate, without resolver and without
\* explanation request, returns True, and a history block is made.
C27_UnknownTypeExecutes ==
    data.type = "other"
        => /\ color = WHITE
           /\ chains = 0
           /\ n_api.explain = 0
           /\ hrc_calls = (IF data.has_run THEN 1 ELSE 0)
           /\ pc \in {"confirm", "run", "api_summary", "prompt"}
           /\ pc = "api_summary"
                 => /\ data.has_run => hrc_ret = "True"
                    /\ \A i \in 1..Len(data.run) :
                           runs[i] = 1 \/ (runs[i] = 0 /\ data.run[i].confirm)
                    /\ Len(all_results) =
                           Cardinality({i \in 1..Len(data.run) : runs[i] = 1})
           /\ (pc = "prompt" /\ ~raised) => appended = 1

C27_Witness ==
    /\ data.type = "other"
    /\ pc = "api_summary"
    /\ Len(data.run) = 2
    /\ runs = <<1, 1>>
    /\ Len(all_results) = 2
    /\ Truthy(all_results[1].stderr)

\* C28: a step of a query plan that has written to stderr does not start the
\* resolver: the step's result is recorded with that stderr, the pipeline
\* goes on to the next step (or, after the last one, to the explanation
\* request), and it does not return False.
C28_QueryStderrNotRepaired ==
    data.type = "query"
        => /\ chains = 0
           /\ stack = <<>>
           /\ pc \notin ChainPcs
           /\ hrc_ret # "False"
           /\ Ran(Commands, "err")
                 => /\ all_results # <<>>
                    /\ all_results[Len(all_results)] =
                           [command |-> last_ev.cmd, stdout |-> <<>>, stderr |-> <<"e">>]
                    /\ IF idx <= Len(data.run)
                       THEN pc \in {"confirm", "run"}
                       ELSE pc = "api_explain"

\* The first step of a query plan has failed and the second one is running.
C28_Witness ==
    /\ data.type = "query"
    /\ pc = "run"
    /\ idx = 2
    /\ Ran(Commands, "err")
    /\ Truthy(all_results[1].stderr)

\* C29: a turn sends at most one explanation request; the request is sent
\* with every step of the run list finished or rejected, none in flight, and
\* at least one step executed; a pipeline that returns False has sent none.
C29_OneExplanationAtTheEnd ==
    /\ n_api.explain <= 1
    /\ hrc_ret = "False" => n_api.explain = 0
    /\ pc \in PipelinePcs \cup {"api_summary"}
          => (n_api.explain = 1
                 => /\ idx = Len(data.run) + 1
                    /\ proc = "ended"
                    /\ \E i \in 1..Len(runs) : runs[i] = 1
                    /\ \A i \in 1..Len(runs) : runs[i] <= 1)
    /\ (pc \in PipelinePcs \cup {"api_summary"} /\ \A i \in 1..Len(runs) : runs[i] = 0)
          => n_api.explain = 0
    /\ pc \in {"confirm", "run"} \cup ChainPcs => n_api.explain = 0

\* The explanation request of a query plan whose first step ran and whose
\* last step was rejected.
C29_Witness ==
    /\ pc = "api_explain"
    /\ Asked({"c2"}, "False")
    /\ Len(data.run) = 2
    /\ runs = <<1, 0>>
    /\ n_api.explain = 1

\* C25: the plan parser decodes the content of a fenced block tagged json
\* when the text has one, also when an untagged or otherwise tagged block
\* comes before it; else the content of the first fenced block; else the
\* text itself.
C25_TaggedBlockPreferred ==
    extracted # NoMatch
        => LET blocks == {i \in 1..Len(text) : Len(text[i]) = 3}
               tagged == {i \in blocks : text[i][1].tag = "json"}
               First(S) == CHOOSE i \in S : \A k \in S : i <= k
           IN IF tagged # {} THEN extracted = <<text[First(tagged)][2]>>
              ELSE IF blocks # {} THEN extracted = <<text[First(blocks)][2]>>
              ELSE extracted = Flatten(text)

\* The budget the configuration gives the current model: the max_tokens of its
\* own entry under the current provider, else that of the "default" entry.
ConfiguredBudget ==
    LET entries == ModelsOf(config, CURRENT_PROVIDER)
        own == {i \in 1..Len(entries) :
                   entries[i].name = AGENT_MODEL /\ entries[i].has_max}
        default == {i \in 1..Len(entries) :
                       entries[i].name = "default" /\ entries[i].has_max}
    IN IF own # {} THEN entries[CHOOSE i \in own : TRUE].max_tokens
       ELSE IF default # {} THEN entries[CHOOSE i \in default : TRUE].max_tokens
       ELSE 4096

\* C24: the token budget of a backend call is the max_tokens of the current
\* model's own entry under the current provider when that entry has one, else
\* the max_tokens of the provider's "default" entry when it has one, else 4096.
C24_TokenBudget ==
    [][(pc \in ApiPcs) => max_tokens' = ConfiguredBudget]_vars

\* A call was made with the budget of the "default" entry, the model's own
\* entry having none.
C24_Witness ==
    /\ max_tokens = 2048
    /\ CURRENT_PROVIDER = "DeepSeek"
    /\ AGENT_MODEL = "deepseek-chat"
    /\ ~At(ModelsOf(config, "DeepSeek"), "deepseek-chat").has_max

\* C21: whenever no backend call is in progress no spinner thread is running,
\* and at most one spinner thread runs at any time.
C21_SpinnerJoinedOnReturn ==
    /\ pc \notin ApiPcs => spinners = 0
    /\ spinners <= 1

\* C23: a step that changes the model, the provider, the mode or the history
\* blocks, other than the opening of the model selector, leaves the session
\* state last written by save_state equal to the one in memory.
C23_SavedStateCurrent ==
    [][(<<AGENT_MODEL, CURRENT_PROVIDER, AGENT_MODE, history_blocks>>'
            # <<AGENT_MODEL, CURRENT_PROVIDER, AGENT_MODE, history_blocks>>
        /\ pc' # "models")
       => saved_state' = SessionState(AGENT_MODEL', AGENT_MODE', CURRENT_PROVIDER',
                                      history_blocks')]_vars

\* C31: a reply that carries a plan, bare or inside a markdown fence, is
\* accepted as the main plan and as a repair plan alike: after the main call
\* the first command of the plan runs, and after a repair request the first
\* command of the repair plan runs.
C31_FencedRepairPlanAccepted ==
    /\ Replied("main", {"object"}) => (pc = "run" /\ Len(data.run) = 1)
    /\ Replied("issue", {"object", "fenced"}) => (pc = "run_fix" /\ Len(issue_data.run) = 1)

\* C36: stop_requested is False in every state, SIGINT or not, so no command
\* has been reported as stopped by the user and no process has been killed.
C36_StopFlagNeverSet ==
    /\ ~stop_requested
    /\ stderr # StoppedByUser
    /\ \A i \in 1..Len(all_results) : all_results[i].stderr # StoppedByUser
    /\ \A i \in 1..Len(issue_history) : issue_history[i].stderr # StoppedByUser
    /\ proc # "killed"

\* SIGINT has ended the process during a turn.
C36_Witness ==
    /\ pc = "exited"
    /\ turns = 1
    /\ ~stop_requested

\* C32: a history block is appended by the return of the turn's one
\* summarization request and by nothing else in a turn; the request is sent
\* once the pipeline has returned or the response needs none, with the
\* resolver in no call; and its return appends the block whatever the reply,
\* with the summary "No summary available" when the call gave no response.
C32_OneSummaryThenBlock ==
    /\ [](pc = "api_summary"
             => /\ n_api.summary = 1
                /\ appended = 0
                /\ stack = <<>>
                /\ (data.has_run /\ data.type # "answer") => hrc_ret \in {"True", "False"})
    /\ [](n_api.summary > 0 => pc \in {"api_summary", "prompt"})
    /\ [][(pc = "api_summary")
             => /\ appended' = 1
                /\ n_api'.summary = 1
                /\ pc' = "prompt"
                /\ history_blocks' # <<>>
                /\ history_blocks'[Len(history_blocks')].user_prompt = user_prompt
                /\ history_blocks'[Len(history_blocks')].summary =
                       (IF Replied("summary", {"none"})' THEN "No summary available"
                        ELSE "summary")]_vars
    /\ [][(history_blocks' # history_blocks) => pc = "api_summary"]_vars

\* The block of a turn whose pipeline returned True and whose summarization
\* call failed.
C32_Witness ==
    /\ pc = "prompt"
    /\ appended = 1
    /\ hrc_ret = "True"
    /\ Replied("summary", {"none"})
    /\ history_blocks[Len(history_blocks)].summary = "No summary available"

\* C33: a call of the resolver runs at most one command of its repair plan,
\* the first: the step at which it prompts or runs is step 1, and when that
\* command has returned the call prompts for and runs no other step: it has
\* returned True (empty stderr) or made the recursive call (stderr); a
\* rejected confirmation has made it return False.
C33_OneFixCommandPerLevel ==
    /\ [](pc \in {"confirm_fix", "run_fix"}
             => /\ fix_idx = 1
                /\ fix_runs = Len(stack) - (IF pc = "run_fix" THEN 0 ELSE 1))
    /\ [](fix_runs <= Len(her_calls))
    /\ [][(pc = "run_fix")
             => IF Ran(FixCommands, "ok")'
                THEN stack' = <<>> /\ her_ret' = "True" /\ pc' \notin ChainPcs
                ELSE /\ Ran(FixCommands, "err")'
                     /\ her_calls' = Append(her_calls, Len(stack))
                     /\ fix_runs' = fix_runs
                     /\ \/ pc' = "api_issue" /\ Len(stack') = Len(stack) + 1
                        \/ gave_up' /\ her_ret' = "False"]_vars
    /\ [][(pc = "confirm_fix" /\ Asked(FixCommands, "False")')
             => (her_ret' = "False" /\ stack' = <<>> /\ fix_runs' = fix_runs)]_vars

\* The first command of a repair plan of two steps is in flight at the second
\* level, each level above having run one command.
C33_Witness ==
    /\ pc = "run_fix"
    /\ Len(issue_data.run) = 2
    /\ fix_idx = 1
    /\ Len(stack) = 2
    /\ fix_runs = 2

\* C34: when the resolver has returned True for a failed step, the step's
\* command is not run again: the pipeline records the step with the stdout
\* and the stderr of its one run and goes on to the next step; no step of
\* the plan is run more than once in a turn.
C34_RepairedStepNotRerun ==
    /\ [](\A i \in 1..Len(runs) : runs[i] <= 1)
    /\ [][(pc = "run_fix" /\ Ran(FixCommands, "ok")')
             => /\ Truthy(stderr)
                /\ runs'[idx] = 1
                /\ idx' = idx + 1
                /\ all_results' =
                       Append(all_results, [command |-> data.run[idx].command,
                                            stdout |-> stdout, stderr |-> stderr])
                /\ \A i \in 1..Len(runs) : i # idx + 1 => runs'[i] = runs[i]
                /\ IF idx < Len(data.run)
                   THEN pc' = (IF data.run[idx + 1].confirm THEN "confirm" ELSE "run")
                   ELSE pc' = "api_summary"]_vars

\* The second step is in flight after the first was repaired and recorded
\* with its stderr.
C34_Witness ==
    /\ pc = "run"
    /\ idx = 2
    /\ her_ret = "True"
    /\ Len(all_results) = 1
    /\ Truthy(all_results[1].stderr)
    /\ runs = <<1, 1>>

\* C35: every chain starts at depth 0 with no attempts: the resolver is
\* called for the failing step with depth 0 and an empty issue_history,
\* whatever chains the turn has run before.  While a turn lasts it has had at
\* most one chain per step that it ran, and a chain runs at most 10 fix
\* commands.
C35_ChainStartsFresh ==
    /\ [](pc # "prompt" => chains <= Cardinality({i \in 1..Len(runs) : runs[i] = 1}))
    /\ [](fix_runs <= MaxDepth)
    /\ [](her_calls # <<>> => her_calls[1] = 0)
    /\ [][(chains' = chains + 1)
             => /\ pc = "run"
                /\ pc' = "api_issue"
                /\ stack' = << [failed_cmd |-> data.run[idx].command,
                                stderr |-> stderr', depth |-> 0] >>
                /\ her_calls' = <<0>>
                /\ issue_history' = <<>>
                /\ attempts_text' = <<>>
                /\ chain_reqs' = 1
                /\ fix_runs' = 0]_vars

\* The chain of the second step has run 10 fix commands after the chain of
\* the first step had run at least one: more than 10 in the turn.
C35_Witness ==
    /\ chains = 2
    /\ fix_runs = MaxDepth
    /\ gave_up
    /\ Len(all_results) = 1
    /\ Truthy(all_results[1].stderr)

\* C37: in ASK mode as in WORK mode, a plan of type query or task with a run
\* list is executed: its first step is prompted for or run as soon as the
\* plan is decoded, a step with confirm = true runs only after the user has
\* confirmed it, and a failing step of a task starts the resolver.  The mode
\* of the turn is recorded in its history block.
C37_DispatchIgnoresMode ==
    /\ [][(pc = "api_main" /\ Replied("main", {"object"})' /\ ~raised'
           /\ data'.type \in {"query", "task"} /\ data'.has_run)
             => /\ hrc_calls' = 1
                /\ color' = (IF data'.type = "query" THEN GREEN ELSE BLUE)
                /\ IF data'.run = <<>> THEN pc' = "api_summary"
                   ELSE pc' = (IF data'.run[1].confirm THEN "confirm" ELSE "run")]_vars
    /\ []((pc = "run" /\ data.run[idx].confirm) => Asked(Commands, "True"))
    /\ []((Ran(Commands, "err") /\ data.type = "task") => pc = "api_issue")
    /\ []((Ran(Commands, "err") /\ data.type = "query") => pc # "api_issue")
    /\ [][(appended' = appended + 1)
             => history_blocks'[Len(history_blocks')].mode = AGENT_MODE]_vars

\* In ASK mode a fix command of a task plan is in flight.
C37_Witness ==
    /\ AGENT_MODE = "ASK"
    /\ data.type = "task"
    /\ pc = "run_fix"
    /\ runs[1] = 1

====
